---- MODULE Spec2Model ----
(***************************************************************************)
(* A model of the caching and admission-control engine of                  *)
(* backend/app/core/cache.py (CacheManager, RateLimiter) and               *)
(* backend/app/services/cache_strategy.py (MultiLevelCache,                *)
(* SmartCacheManager).                                                     *)
(*                                                                         *)
(* Time is the integer `clock` (datetime.utcnow(), in seconds).  The       *)
(* shared tier (Redis) is a key-value store with per-key expiry and one    *)
(* sorted set per limiter key; every call to it may raise.  A str is a     *)
(* sequence of one-character strings.                                      *)
(***************************************************************************)
EXTENDS Integers, Sequences, FiniteSets, TLC

VARIABLES
    clock,          \* datetime.utcnow(), seconds
    redis_client,   \* CacheManager.redis_client: "none" or "conn"
    redis_kv,       \* shared tier: the live cache keys, key -> [val, exp]
    local_cache,    \* CacheManager.local_cache: entries in dict (insertion) order
    l1_cache,       \* MultiLevelCache.l1_cache: entries in dict (insertion) order
    deferred,       \* the _delayed_write tasks created and not yet run
    access_patterns, \* SmartCacheManager.access_patterns: key -> [count, access_times]
    cache_stats,    \* SmartCacheManager.cache_stats: key -> [hits, misses]
    sm_calls,       \* the get_with_analytics coroutines of the concurrent callers:
                    \* caller -> where it is suspended, its arguments and result
    last,           \* the last call of a CacheManager or MultiLevelCache method:
                    \* its arguments, what it found and its outcome
    zset,           \* shared tier: limiter key -> set of [member, score]
    zexp,           \* shared tier: limiter key -> expiry time of its sorted set
    limit,          \* the limit the is_allowed calls of the run pass
    window,         \* the window the is_allowed calls of the run pass
    rl_pc,          \* caller -> its position inside RateLimiter.is_allowed
    rl_log          \* the is_allowed calls that returned, in order of return

vars == <<clock, redis_client, redis_kv, local_cache, l1_cache, deferred,
          access_patterns, cache_stats, sm_calls, last,
          zset, zexp, limit, window, rl_pc, rl_log>>

cmVars == <<redis_kv, local_cache>>
mlVars == <<l1_cache, deferred>>
smVars == <<access_patterns, cache_stats, sm_calls>>
rlVars == <<zset, zexp, limit, window, rl_pc, rl_log>>

----------------------------------------------------------------------------
(* Bounds of the model *)

\* The limiter runs: the clock's last second and the number of calls.
RLMaxClock == 2
RLMaxCalls == 3
\* The limiter scenario of limit 3, window 10: calls up to second 11.
SeqMaxClock == 11
SeqMaxCalls == 5
\* The cache runs: the clock advances CacheStep seconds at a time, CacheTicks times.
CacheStep == 300
CacheTicks == 2
\* The MultiLevelCache runs: the clock advances StoreTicks times.
StoreTicks == 1
\* max_local_cache_size and max_l1_size, 1000 in the code, scaled down.
MaxLocalCacheSize == 2
MaxL1Size == 2
\* Deferred write-back tasks that may be outstanding at once.
MaxDeferred == 1
\* The access times a pattern retains, 100 in the code, scaled down.
MaxAccessTimes == 3
\* The SmartCacheManager runs: the calls of a run, and the clock's end.
SmartMaxCalls == 3
SmartTicks == 2

NoExp == -1

\* F(v), v being computed once: a local variable of the code.
Bind(v, F(_)) == CHOOSE y \in {F(x) : x \in {v}} : TRUE
----------------------------------------------------------------------------
(* Python values and text.  A text (str) is a sequence of one-character    *)
(* strings, so that formatting and parsing are computed character by       *)
(* character.                                                              *)

PStr(s) == [tag |-> "str", s |-> s]
PInt(n) == [tag |-> "int", n |-> n]
PBool(b) == [tag |-> "bool", b |-> b]
PNone == [tag |-> "none"]
PList(xs) == [tag |-> "list", items |-> xs]
\* A dict is its items in insertion order: <<key text, value>> pairs.
PDict(ps) == [tag |-> "dict", pairs |-> ps]

DigitChars == <<"0", "1", "2", "3", "4", "5", "6", "7", "8", "9">>

IsDigit(c) == \E i \in 1..10 : DigitChars[i] = c

DigitValue(c) == (CHOOSE i \in 1..10 : DigitChars[i] = c) - 1

RECURSIVE IntToText(_)
IntToText(n) ==
    IF n < 10 THEN <<DigitChars[n + 1]>>
    ELSE IntToText(n \div 10) \o <<DigitChars[(n % 10) + 1]>>

RECURSIVE TextToInt(_)
TextToInt(t) ==
    IF Len(t) = 0 THEN 0
    ELSE 10 * TextToInt(SubSeq(t, 1, Len(t) - 1)) + DigitValue(t[Len(t)])

RECURSIVE JoinText(_, _)
JoinText(parts, sep) ==
    IF Len(parts) = 0 THEN <<>>
    ELSE IF Len(parts) = 1 THEN parts[1]
    ELSE parts[1] \o sep \o JoinText(Tail(parts), sep)

Quoted(s) == <<"\"">> \o s \o <<"\"">>

\* str(value) for the scalars set() hands to it.
PyStr(v) ==
    CASE v.tag = "str" -> v.s
      [] v.tag = "int" -> IntToText(v.n)
      [] v.tag = "bool" -> IF v.b THEN <<"T", "r", "u", "e">>
                                  ELSE <<"F", "a", "l", "s", "e">>
      [] v.tag = "none" -> <<"N", "o", "n", "e">>

\* json.dumps(value, ensure_ascii=False), default separators ", " and ": ".
\* Strings of the model hold no quote, backslash or control character, so
\* none needs an escape.
RECURSIVE JsonDumps(_)
JsonDumps(v) ==
    CASE v.tag = "str" -> Quoted(v.s)
      [] v.tag = "int" -> IntToText(v.n)
      [] v.tag = "bool" -> IF v.b THEN <<"t", "r", "u", "e">>
                                  ELSE <<"f", "a", "l", "s", "e">>
      [] v.tag = "none" -> <<"n", "u", "l", "l">>
      [] v.tag = "list" ->
            <<"[">> \o JoinText([i \in 1..Len(v.items) |-> JsonDumps(v.items[i])],
                                <<",", " ">>) \o <<"]">>
      [] v.tag = "dict" ->
            <<"{">> \o JoinText([i \in 1..Len(v.pairs) |->
                                    Quoted(v.pairs[i][1]) \o <<":", " ">>
                                        \o JsonDumps(v.pairs[i][2])],
                                <<",", " ">>) \o <<"}">>

\* Leading and trailing JSON whitespace removed.
RECURSIVE Strip(_)
Strip(t) ==
    IF Len(t) > 0 /\ t[1] = " " THEN Strip(Tail(t))
    ELSE IF Len(t) > 0 /\ t[Len(t)] = " " THEN Strip(SubSeq(t, 1, Len(t) - 1))
    ELSE t

\* The pieces of t between the occurrences of character sep that lie outside
\* every string and every bracket.
RECURSIVE SplitTop(_, _, _, _, _, _)
SplitTop(t, sep, i, depth, instr, cur) ==
    IF i > Len(t) THEN <<cur>>
    ELSE LET c == t[i] IN
         IF instr THEN SplitTop(t, sep, i + 1, depth, c # "\"", Append(cur, c))
         ELSE IF c = "\"" THEN SplitTop(t, sep, i + 1, depth, TRUE, Append(cur, c))
         ELSE IF c \in {"[", "{"} THEN SplitTop(t, sep, i + 1, depth + 1, FALSE, Append(cur, c))
         ELSE IF c \in {"]", "}"} THEN SplitTop(t, sep, i + 1, depth - 1, FALSE, Append(cur, c))
         ELSE IF c = sep /\ depth = 0
              THEN <<cur>> \o SplitTop(t, sep, i + 1, depth, FALSE, <<>>)
         ELSE SplitTop(t, sep, i + 1, depth, FALSE, Append(cur, c))

IsJsonString(t) ==
    /\ Len(t) >= 2
    /\ t[1] = "\""
    /\ t[Len(t)] = "\""
    /\ \A i \in 2..(Len(t) - 1) : t[i] \notin {"\"", "\\"}

IsJsonNumber(t) ==
    /\ Len(t) >= 1
    /\ \A i \in 1..Len(t) : IsDigit(t[i])
    /\ (Len(t) = 1 \/ t[1] # "0")

ParseFail == [ok |-> FALSE]

\* json.loads(text): [ok |-> TRUE, v |-> value], or [ok |-> FALSE] where
\* json.loads raises JSONDecodeError.
RECURSIVE JsonParse(_)
JsonParse(text) ==
    LET t == Strip(text)
        n == Len(t)
        inner == SubSeq(t, 2, n - 1)
    IN
    IF n = 0 THEN ParseFail
    ELSE IF t = <<"t", "r", "u", "e">> THEN [ok |-> TRUE, v |-> PBool(TRUE)]
    ELSE IF t = <<"f", "a", "l", "s", "e">> THEN [ok |-> TRUE, v |-> PBool(FALSE)]
    ELSE IF t = <<"n", "u", "l", "l">> THEN [ok |-> TRUE, v |-> PNone]
    ELSE IF IsJsonNumber(t) THEN [ok |-> TRUE, v |-> PInt(TextToInt(t))]
    ELSE IF IsJsonString(t) THEN [ok |-> TRUE, v |-> PStr(inner)]
    ELSE IF n >= 2 /\ t[1] = "[" /\ t[n] = "]" THEN
        IF Strip(inner) = <<>> THEN [ok |-> TRUE, v |-> PList(<<>>)]
        ELSE LET parts == SplitTop(inner, ",", 1, 0, FALSE, <<>>)
                 items == [i \in 1..Len(parts) |-> JsonParse(parts[i])]
             IN IF \A i \in 1..Len(parts) : items[i].ok
                THEN [ok |-> TRUE, v |-> PList([i \in 1..Len(parts) |-> items[i].v])]
                ELSE ParseFail
    ELSE IF n >= 2 /\ t[1] = "{" /\ t[n] = "}" THEN
        IF Strip(inner) = <<>> THEN [ok |-> TRUE, v |-> PDict(<<>>)]
        ELSE LET parts == SplitTop(inner, ",", 1, 0, FALSE, <<>>)
                 kv == [i \in 1..Len(parts) |-> SplitTop(parts[i], ":", 1, 0, FALSE, <<>>)]
                 wellFormed == \A i \in 1..Len(parts) :
                                  Len(kv[i]) = 2 /\ IsJsonString(Strip(kv[i][1]))
             IN IF ~wellFormed THEN ParseFail
                ELSE LET vals == [i \in 1..Len(parts) |-> JsonParse(kv[i][2])]
                     IN IF \A i \in 1..Len(parts) : vals[i].ok
                        THEN [ok |-> TRUE,
                              v |-> PDict([i \in 1..Len(parts) |->
                                  <<SubSeq(Strip(kv[i][1]), 2, Len(Strip(kv[i][1])) - 1),
                                    vals[i].v>>])]
                        ELSE ParseFail
    ELSE ParseFail

\* set(): dict, list (and tuple) values go through json.dumps, every other
\* value through str().
Serialize(value) ==
    IF value.tag \in {"dict", "list"} THEN JsonDumps(value) ELSE PyStr(value)

\* get(): json.loads(value), and the raw string on JSONDecodeError.
Deserialize(text) ==
    LET r == JsonParse(text) IN IF r.ok THEN r.v ELSE PStr(text)

----------------------------------------------------------------------------
(* Cache keys and glob patterns *)

\* fnmatch.fnmatch(key, pattern) and the server's KEYS pattern, for patterns
\* built of literal characters, "*" and "?".
RECURSIVE GlobMatch(_, _)
GlobMatch(key, pat) ==
    IF pat = <<>> THEN key = <<>>
    ELSE IF pat[1] = "*"
         THEN GlobMatch(key, Tail(pat)) \/ (key # <<>> /\ GlobMatch(Tail(key), pat))
    ELSE /\ key # <<>>
         /\ (pat[1] = "?" \/ pat[1] = key[1])
         /\ GlobMatch(Tail(key), Tail(pat))

----------------------------------------------------------------------------
(* An in-process store: a dict of key -> {value, created_at, expires_at},  *)
(* kept as the sequence of its entries in insertion order.                 *)

NoEntry == [key |-> <<>>, value |-> PNone, created_at |-> NoExp, expires_at |-> NoExp]

Entry(key, value, now, ttl) ==
    [key |-> key, value |-> value, created_at |-> now, expires_at |-> now + ttl]

StoreKeys(store) == {store[i].key : i \in 1..Len(store)}

StoreHas(store, key) == key \in StoreKeys(store)

StoreEntry(store, key) ==
    IF StoreHas(store, key)
    THEN store[CHOOSE i \in 1..Len(store) : store[i].key = key]
    ELSE NoEntry

\* del store[key]
StoreDel(store, key) ==
    LET Keep(e) == e.key # key IN SelectSeq(store, Keep)

\* store[key] = entry: a key already present keeps its place in the order.
StorePut(store, entry) ==
    IF StoreHas(store, entry.key)
    THEN [i \in 1..Len(store) |-> IF store[i].key = entry.key THEN entry ELSE store[i]]
    ELSE Append(store, entry)

\* The last key, in dict order, among those of the largest created_at.
NewestKey(store) ==
    LET i == CHOOSE i \in 1..Len(store) :
                 /\ \A j \in 1..Len(store) : store[i].created_at >= store[j].created_at
                 /\ \A j \in (i + 1)..Len(store) : store[j].created_at < store[i].created_at
    IN store[i].key

\* min(store.keys(), key=created_at): the first key, in dict order, among
\* those of the smallest created_at.
OldestKey(store) ==
    LET i == CHOOSE i \in 1..Len(store) :
                 /\ \A j \in 1..Len(store) : store[i].created_at <= store[j].created_at
                 /\ \A j \in 1..(i - 1) : store[j].created_at > store[i].created_at
    IN store[i].key

\* CacheManager._cleanup_local_cache
CleanupLocalCache(store, now) ==
    LET Unexpired(e) == ~(e.expires_at <= now) IN SelectSeq(store, Unexpired)

\* A size test that lets the store grow one entry beyond its maximum.
LocalIsOverFull(store) == Len(store) > MaxLocalCacheSize

\* The size test of _set_local_cache.
LocalIsFull(store) == Len(store) >= MaxLocalCacheSize

\* CacheManager._set_local_cache
SetLocalCache(store, key, value, ttl, now) ==
    LET Insert(room) == StorePut(room, Entry(key, value, now, ttl))
        MakeRoom(cleaned) ==
            Insert(IF LocalIsFull(cleaned)
                   THEN StoreDel(cleaned, OldestKey(cleaned))
                   ELSE cleaned)
    IN Bind(CleanupLocalCache(store, now), MakeRoom)

\* A freshness test that never finds an entry expired.
AlwaysFresh(entry, now) == TRUE

\* The freshness test of the local read: cache_item['expires_at'] > utcnow().
LocalIsFresh(entry, now) == entry.expires_at > now

\* The local-tier part of CacheManager.get and of CacheManager.exists: the
\* entry if fresh; an expired entry is deleted.  [hit, value, store].
LocalRead(store, key, now) ==
    IF StoreHas(store, key)
    THEN IF LocalIsFresh(StoreEntry(store, key), now)
         THEN [hit |-> TRUE, value |-> StoreEntry(store, key).value, store |-> store]
         ELSE [hit |-> FALSE, value |-> PNone, store |-> StoreDel(store, key)]
    ELSE [hit |-> FALSE, value |-> PNone, store |-> store]

----------------------------------------------------------------------------
(* CacheManager: what each method does to the two tiers and what it        *)
(* returns.  `client` is self.redis_client, `rkv` the shared tier, `store`  *)
(* the local cache, `now` the clock.  `fail` says whether and where the     *)
(* shared-tier call of the method raises: "none"; "pre", before the server  *)
(* ran the command; "post", after it did, the reply being lost.  A method   *)
(* body yields [raised, ret, rkv, store, redis], redis being what the       *)
(* shared tier answered: "skip" (no client), "hit", "miss", "ok", "error". *)

True == PBool(TRUE)
False == PBool(FALSE)

Outcome(raised, ret, rkv, store, redis) ==
    [raised |-> raised, ret |-> ret, rkv |-> rkv, store |-> store, redis |-> redis]

\* The body left to itself: its exception reaches the caller.
Uncaught(body, onerr) == body

\* try: <body> except Exception: log; return <onerr>
Catch(body, onerr) ==
    IF body.raised THEN [body EXCEPT !.raised = FALSE, !.ret = onerr] ELSE body

\* SETEX key ttl value
RedisSetex(rkv, key, ttl, val, now) ==
    [k \in (DOMAIN rkv) \cup {key} |->
        IF k = key THEN [val |-> val, exp |-> now + ttl] ELSE rkv[k]]

\* DEL key ...
RedisDel(rkv, keys) == [k \in (DOMAIN rkv) \ keys |-> rkv[k]]

\* KEYS pattern
RedisKeys(rkv, pattern) == {k \in DOMAIN rkv : GlobMatch(k, pattern)}

\* The server drops a key once its TTL has run out.
RedisExpire(rkv, now) == [k \in {j \in DOMAIN rkv : rkv[j].exp > now} |-> rkv[k]]

\* The body of CacheManager.get, inside its try.
GetBody(client, rkv, store, key, default, fail, now) ==
    IF client = "conn" /\ fail # "none"
    THEN Outcome(TRUE, PNone, rkv, store, "error")
    ELSE IF client = "conn" /\ key \in DOMAIN rkv
    THEN Outcome(FALSE, Deserialize(rkv[key].val), rkv, store, "hit")
    ELSE LET r == LocalRead(store, key, now)
         IN Outcome(FALSE, IF r.hit THEN r.value ELSE default, rkv, r.store,
                    IF client = "conn" THEN "miss" ELSE "skip")

\* CacheManager.get(key, default)
CMGet(client, rkv, store, key, default, fail, now) ==
    Catch(GetBody(client, rkv, store, key, default, fail, now), default)

\* The body of CacheManager.set, inside its try.
SetBody(client, rkv, store, key, value, ttl, fail, now) ==
    LET serialized_value == Serialize(value)
        written == RedisSetex(rkv, key, ttl, serialized_value, now)
    IN IF client = "conn"
       THEN CASE fail = "none" -> Outcome(FALSE, True, written, store, "ok")
              [] fail = "pre" -> Outcome(TRUE, PNone, rkv, store, "error")
              [] fail = "post" -> Outcome(TRUE, PNone, written, store, "error")
       ELSE Outcome(FALSE, True, rkv, SetLocalCache(store, key, value, ttl, now), "skip")

\* CacheManager.set(key, value, ttl)
CMSet(client, rkv, store, key, value, ttl, fail, now) ==
    Catch(SetBody(client, rkv, store, key, value, ttl, fail, now), False)

\* The body of CacheManager.delete, inside its try.
DeleteBody(client, rkv, store, key, fail) ==
    IF client = "conn" /\ fail = "pre"
    THEN Outcome(TRUE, PNone, rkv, store, "error")
    ELSE IF client = "conn" /\ fail = "post"
    THEN Outcome(TRUE, PNone, RedisDel(rkv, {key}), store, "error")
    ELSE Outcome(FALSE, True,
                 IF client = "conn" THEN RedisDel(rkv, {key}) ELSE rkv,
                 StoreDel(store, key),
                 IF client = "conn" THEN "ok" ELSE "skip")

\* CacheManager.delete(key)
CMDelete(client, rkv, store, key, fail) ==
    Catch(DeleteBody(client, rkv, store, key, fail), False)

\* The body of CacheManager.exists, inside its try.
ExistsBody(client, rkv, store, key, fail, now) ==
    IF client = "conn"
    THEN IF fail # "none"
         THEN Outcome(TRUE, PNone, rkv, store, "error")
         ELSE Outcome(FALSE, PBool(key \in DOMAIN rkv), rkv, store,
                      IF key \in DOMAIN rkv THEN "hit" ELSE "miss")
    ELSE LET r == LocalRead(store, key, now)
         IN Outcome(FALSE, PBool(r.hit), rkv, r.store, "skip")

\* CacheManager.exists(key)
CMExists(client, rkv, store, key, fail, now) ==
    Catch(ExistsBody(client, rkv, store, key, fail, now), False)

\* The body of CacheManager.clear_pattern, inside its try.  fail = "keys":
\* the KEYS call raises; "pre" and "post": the DEL call does.
ClearPatternBody(client, rkv, store, pattern, fail) ==
    LET keys == RedisKeys(rkv, pattern)
        local_keys == {k \in StoreKeys(store) : GlobMatch(k, pattern)}
        Kept(e) == e.key \notin local_keys
        count == IF client = "conn" THEN Cardinality(keys) ELSE 0
    IN IF client = "conn" /\ fail \in {"keys", "pre"}
       THEN Outcome(TRUE, PNone, rkv, store, "error")
       ELSE IF client = "conn" /\ fail = "post"
       THEN Outcome(TRUE, PNone, RedisDel(rkv, keys), store, "error")
       ELSE Outcome(FALSE, PInt(count + Cardinality(local_keys)),
                    IF client = "conn" THEN RedisDel(rkv, keys) ELSE rkv,
                    SelectSeq(store, Kept),
                    IF client = "conn" THEN "ok" ELSE "skip")

\* CacheManager.clear_pattern(pattern)
CMClearPattern(client, rkv, store, pattern, fail) ==
    Catch(ClearPatternBody(client, rkv, store, pattern, fail), PInt(0))

\* CacheManager.get_stats(): the INFO call has a try of its own, and the
\* three server figures are present only when it answered.
CMGetStats(client, rkv, store, fail) ==
    Outcome(FALSE,
            [tag |-> "stats",
             local_cache_size |-> Len(store),
             local_cache_max_size |-> MaxLocalCacheSize,
             redis_connected |-> (client = "conn"),
             redis_info |-> (client = "conn" /\ fail = "none")],
            rkv, store,
            IF client # "conn" THEN "skip" ELSE IF fail = "none" THEN "ok" ELSE "error")

----------------------------------------------------------------------------
(* The calls as actions.  `last` records the call: the class ("cm": the     *)
(* CacheManager, "ml": the MultiLevelCache) and the method, the arguments, *)
(* the client and the clock it ran under, the key's entries in the local   *)
(* store and in the L1 store before it, the sizes of the two stores before *)
(* it, and its outcome.                                                    *)

CallRecord(api, op, key, arg, ttl, levels, strategy, fail, ret, raised, redis) ==
    [api |-> api, op |-> op, key |-> key, arg |-> arg, ttl |-> ttl,
     levels |-> levels, strategy |-> strategy, fail |-> fail,
     client |-> redis_client, now |-> clock,
     pre |-> StoreEntry(local_cache, key), pre_l1 |-> StoreEntry(l1_cache, key),
     size |-> Len(local_cache), size_l1 |-> Len(l1_cache),
     ret |-> ret, raised |-> raised, redis |-> redis]

NoCall ==
    [api |-> "", op |-> "none", key |-> <<>>, arg |-> PNone, ttl |-> 0,
     levels |-> <<>>, strategy |-> "", fail |-> "none",
     client |-> "none", now |-> 0, pre |-> NoEntry, pre_l1 |-> NoEntry,
     size |-> 0, size_l1 |-> 0,
     ret |-> PNone, raised |-> FALSE, redis |-> "skip"]

\* A shared-tier failure needs a client to fail.
FailOK(fail) == redis_client = "conn" \/ fail = "none"

Commit(op, key, arg, ttl, fail, result) ==
    \E out \in {result} :
        /\ redis_kv' = out.rkv
        /\ local_cache' = out.store
        /\ last' = CallRecord("cm", op, key, arg, ttl, <<>>, "", fail,
                              out.ret, out.raised, out.redis)
        /\ UNCHANGED <<clock, redis_client, mlVars, smVars, rlVars>>

Get(key, default, fail) ==
    /\ FailOK(fail)
    /\ Commit("get", key, default, 0, fail,
              CMGet(redis_client, redis_kv, local_cache, key, default, fail, clock))

Set(key, value, ttl, fail) ==
    /\ FailOK(fail)
    /\ Commit("set", key, value, ttl, fail,
              CMSet(redis_client, redis_kv, local_cache, key, value, ttl, fail, clock))

Delete(key, fail) ==
    /\ FailOK(fail)
    /\ Commit("delete", key, PNone, 0, fail,
              CMDelete(redis_client, redis_kv, local_cache, key, fail))

Exists(key, fail) ==
    /\ FailOK(fail)
    /\ Commit("exists", key, PNone, 0, fail,
              CMExists(redis_client, redis_kv, local_cache, key, fail, clock))

ClearPattern(pattern, fail) ==
    /\ FailOK(fail)
    /\ fail \in {"pre", "post"} => RedisKeys(redis_kv, pattern) # {}
    /\ Commit("clear_pattern", pattern, PNone, 0, fail,
              CMClearPattern(redis_client, redis_kv, local_cache, pattern, fail))

GetStats(fail) ==
    /\ FailOK(fail)
    /\ Commit("get_stats", <<>>, PNone, 0, fail,
              CMGetStats(redis_client, redis_kv, local_cache, fail))

\* CacheManager.init_redis: the client is kept when the connection and the
\* ping succeed, and reset to None when either raises.
InitRedis(ok) ==
    /\ redis_client' = IF ok THEN "conn" ELSE "none"
    /\ UNCHANGED <<clock, cmVars, mlVars, smVars, last, rlVars>>

\* Time passes; the server drops the keys whose TTL has run out.
Tick(step, max) ==
    /\ clock + step <= max
    /\ clock' = clock + step
    /\ redis_kv' = RedisExpire(redis_kv, clock')
    /\ zset' = [k \in DOMAIN zset |->
                   IF zexp[k] # NoExp /\ zexp[k] <= clock' THEN {} ELSE zset[k]]
    /\ zexp' = [k \in DOMAIN zexp |->
                   IF zexp[k] # NoExp /\ zexp[k] <= clock' THEN NoExp ELSE zexp[k]]
    /\ UNCHANGED <<redis_client, local_cache, mlVars, smVars, last, limit, window, rl_pc, rl_log>>

----------------------------------------------------------------------------
(* MultiLevelCache: the L1 memory store *)

L1 == "l1_memory"
L2 == "l2_redis"
L3 == "l3_database"

WRITE_THROUGH == "write_through"
WRITE_BACK == "write_back"
WRITE_AROUND == "write_around"
READ_THROUGH == "read_through"
CACHE_ASIDE == "cache_aside"

\* MultiLevelCache.default_ttl
DefaultTTL(level) ==
    CASE level = L1 -> 300
      [] level = L2 -> 1800
      [] level = L3 -> 3600

\* level_ttl = ttl or self.default_ttl[level]; a ttl of None is 0 here.
LevelTTL(ttl, level) == IF ttl # 0 THEN ttl ELSE DefaultTTL(level)

\* The freshness test of _get_l1_cache: cache_item['expires_at'] > utcnow().
L1IsFresh(entry, now) == entry.expires_at > now

\* MultiLevelCache._get_l1_cache: [value (None on a miss), store].
GetL1Cache(store, key, now) ==
    IF StoreHas(store, key)
    THEN IF L1IsFresh(StoreEntry(store, key), now)
         THEN [value |-> StoreEntry(store, key).value, store |-> store]
         ELSE [value |-> PNone, store |-> StoreDel(store, key)]
    ELSE [value |-> PNone, store |-> store]

\* MultiLevelCache._cleanup_l1_cache
CleanupL1Cache(store, now) ==
    LET Unexpired(e) == ~(e.expires_at <= now) IN SelectSeq(store, Unexpired)

\* The size test of _set_l1_cache.
L1IsFull(store) == Len(store) >= MaxL1Size

\* MultiLevelCache._set_l1_cache
SetL1Cache(store, key, value, ttl, now) ==
    LET Insert(room) == StorePut(room, Entry(key, value, now, ttl))
        MakeRoom(cleaned) ==
            Insert(IF L1IsFull(cleaned)
                   THEN StoreDel(cleaned, OldestKey(cleaned))
                   ELSE cleaned)
    IN Bind(CleanupL1Cache(store, now), MakeRoom)

----------------------------------------------------------------------------
(* MultiLevelCache: the methods.  A tier state is [rkv, store, l1]: the     *)
(* shared tier, the CacheManager's local cache and the L1 store.  rfail and *)
(* wfail say how the shared-tier reads and writes of the call fail.         *)

Tiers(rkv, store, l1) == [rkv |-> rkv, store |-> store, l1 |-> l1]

\* MultiLevelCache._get_from_level: [raised, value, s].
GetFromLevel(client, s, key, level, rfail, now) ==
    LET FromL1(r) == [raised |-> FALSE, value |-> r.value, s |-> [s EXCEPT !.l1 = r.store]]
        FromL2(out) == [raised |-> out.raised, value |-> out.ret,
                        s |-> [s EXCEPT !.rkv = out.rkv, !.store = out.store]]
    IN CASE level = L1 -> Bind(GetL1Cache(s.l1, key, now), FromL1)
         [] level = L2 -> Bind(CMGet(client, s.rkv, s.store, key, PNone, rfail, now), FromL2)
         [] OTHER -> [raised |-> FALSE, value |-> PNone, s |-> s]

\* MultiLevelCache._set_to_level: [raised, s].
SetToLevel(client, s, key, value, ttl, level, wfail, now) ==
    LET ToL2(out) == [raised |-> out.raised,
                      s |-> [s EXCEPT !.rkv = out.rkv, !.store = out.store]]
    IN CASE level = L1 ->
               [raised |-> FALSE,
                s |-> [s EXCEPT !.l1 = SetL1Cache(s.l1, key, value, ttl, now)]]
         [] level = L2 ->
               Bind(CMSet(client, s.rkv, s.store, key, value, ttl, wfail, now), ToL2)
         [] OTHER -> [raised |-> FALSE, s |-> s]

\* The loops of set, _delayed_write (fixed = FALSE: each level's TTL is
\* `ttl or default_ttl[level]`) and _backfill_cache (fixed = TRUE: each
\* level's TTL is default_ttl[level]): the levels written in order, stopping
\* at a write that raises.
RECURSIVE WriteLevels(_, _, _, _, _, _, _, _, _)
WriteLevels(client, s, key, value, ttl, levels, fixed, wfail, now) ==
    IF levels = <<>> THEN [raised |-> FALSE, s |-> s]
    ELSE LET level_ttl == IF fixed THEN DefaultTTL(Head(levels))
                                   ELSE LevelTTL(ttl, Head(levels))
             Rest(w) ==
                 IF w.raised THEN w
                 ELSE WriteLevels(client, w.s, key, value, ttl, Tail(levels),
                                  fixed, wfail, now)
         IN Bind(SetToLevel(client, s, key, value, level_ttl, Head(levels), wfail, now),
                 Rest)

\* MultiLevelCache._backfill_cache: the levels before the one found.
BackfillCache(client, s, key, value, found_index, all_levels, wfail, now) ==
    WriteLevels(client, s, key, value, 0, SubSeq(all_levels, 1, found_index - 1),
                TRUE, wfail, now)

\* MultiLevelCache.get from level index i on: [raised, ret, s].  An exception
\* of a level's read or backfill is caught and the next level is tried.
RECURSIVE MLGetFrom(_, _, _, _, _, _, _, _)
MLGetFrom(client, s, key, levels, i, rfail, wfail, now) ==
    IF i > Len(levels) THEN [raised |-> FALSE, ret |-> PNone, s |-> s]
    ELSE LET TryNext(t) == MLGetFrom(client, t, key, levels, i + 1, rfail, wfail, now)
             Found(r) ==
                 LET Filled(b) ==
                         IF b.raised THEN TryNext(b.s)
                         ELSE [raised |-> FALSE, ret |-> r.value, s |-> b.s]
                 IN Bind(BackfillCache(client, r.s, key, r.value, i, levels, wfail, now),
                         Filled)
             Read(r) ==
                 IF r.raised THEN TryNext(r.s)
                 ELSE IF r.value # PNone THEN Found(r)
                 ELSE TryNext(r.s)
         IN Bind(GetFromLevel(client, s, key, levels[i], rfail, now), Read)

\* MultiLevelCache.get(key, levels)
MLGet(client, s, key, levels, rfail, wfail, now) ==
    MLGetFrom(client, s, key, levels, 1, rfail, wfail, now)

NoTask == [key |-> <<>>, value |-> PNone, ttl |-> 0, levels |-> <<>>]

\* A set that writes every listed level at once, whatever the strategy.
MLSetThrough(client, s, key, value, ttl, levels, strategy, wfail, now) ==
    LET Done(w) == [raised |-> w.raised, s |-> w.s, task |-> NoTask]
    IN Bind(WriteLevels(client, s, key, value, ttl, levels, FALSE, wfail, now), Done)

\* MultiLevelCache.set(key, value, ttl, levels, strategy): [raised, s, task],
\* task being the _delayed_write it created, or NoTask.
MLSet(client, s, key, value, ttl, levels, strategy, wfail, now) ==
    LET Through(w) == [raised |-> w.raised, s |-> w.s, task |-> NoTask]
        Back(w) == [raised |-> w.raised, s |-> w.s,
                    task |-> IF ~w.raised /\ Len(levels) > 1
                             THEN [key |-> key, value |-> value, ttl |-> ttl,
                                   levels |-> Tail(levels)]
                             ELSE NoTask]
    IN CASE strategy = WRITE_THROUGH ->
               Bind(WriteLevels(client, s, key, value, ttl, levels, FALSE, wfail, now),
                    Through)
         [] strategy = WRITE_BACK ->
               IF levels = <<>> THEN [raised |-> FALSE, s |-> s, task |-> NoTask]
               ELSE Bind(SetToLevel(client, s, key, value, LevelTTL(ttl, Head(levels)),
                                    Head(levels), wfail, now),
                         Back)
         [] OTHER -> [raised |-> FALSE, s |-> s, task |-> NoTask]

\* A deferred write that writes nothing.
DelayedWriteLost(client, s, task, wfail, now) == [raised |-> FALSE, s |-> s]

\* MultiLevelCache._delayed_write, once its sleep is over: [raised, s].
DelayedWrite(client, s, task, wfail, now) ==
    WriteLevels(client, s, task.key, task.value, task.ttl, task.levels, FALSE, wfail, now)

\* MultiLevelCache.invalidate(key, levels): [raised, s].  Each level has a
\* try of its own.
RECURSIVE MLInvalidate(_, _, _, _, _)
MLInvalidate(client, s, key, levels, wfail) ==
    IF levels = <<>> THEN [raised |-> FALSE, s |-> s]
    ELSE LET Rest(t) == MLInvalidate(client, t, key, Tail(levels), wfail)
             Deleted(out) == [s EXCEPT !.rkv = out.rkv, !.store = out.store]
         IN Rest(CASE Head(levels) = L1 -> [s EXCEPT !.l1 = StoreDel(s.l1, key)]
                   [] Head(levels) = L2 ->
                         Bind(CMDelete(client, s.rkv, s.store, key, wfail), Deleted)
                   [] OTHER -> s)

----------------------------------------------------------------------------
(* MultiLevelCache: the calls as actions *)

MLRecord(op, key, arg, ttl, levels, strategy, fail, ret, raised) ==
    CallRecord("ml", op, key, arg, ttl, levels, strategy, fail, ret, raised, "")

Now == Tiers(redis_kv, local_cache, l1_cache)

MLCommit(s) ==
    /\ redis_kv' = s.rkv
    /\ local_cache' = s.store
    /\ l1_cache' = s.l1
    /\ UNCHANGED <<clock, redis_client, smVars, rlVars>>

MultiGet(key, levels, rfail, wfail) ==
    /\ FailOK(rfail) /\ FailOK(wfail)
    /\ \E r \in {MLGet(redis_client, Now, key, levels, rfail, wfail, clock)} :
          /\ MLCommit(r.s)
          /\ last' = MLRecord("get", key, PNone, 0, levels, "", rfail, r.ret, r.raised)
    /\ UNCHANGED deferred

MultiSet(key, value, ttl, levels, strategy, wfail) ==
    /\ FailOK(wfail)
    /\ \E r \in {MLSet(redis_client, Now, key, value, ttl, levels, strategy, wfail, clock)} :
          /\ r.task # NoTask => Len(deferred) < MaxDeferred
          /\ MLCommit(r.s)
          /\ deferred' = IF r.task # NoTask THEN Append(deferred, r.task) ELSE deferred
          /\ last' = MLRecord("set", key, value, ttl, levels, strategy, wfail, PNone, r.raised)

\* A _delayed_write task runs; the tasks are independent of one another.
RunDelayedWrite(i, wfail) ==
    /\ i \in 1..Len(deferred)
    /\ FailOK(wfail)
    /\ \E task \in {deferred[i]} :
       \E r \in {DelayedWrite(redis_client, Now, task, wfail, clock)} :
          /\ MLCommit(r.s)
          /\ last' = MLRecord("delayed_write", task.key, task.value, task.ttl,
                              task.levels, WRITE_BACK, wfail, PNone, r.raised)
    /\ deferred' = [j \in 1..(Len(deferred) - 1) |->
                       IF j < i THEN deferred[j] ELSE deferred[j + 1]]

MultiInvalidate(key, levels, wfail) ==
    /\ FailOK(wfail)
    /\ \E r \in {MLInvalidate(redis_client, Now, key, levels, wfail)} :
          /\ MLCommit(r.s)
          /\ last' = MLRecord("invalidate", key, PNone, 0, levels, "", wfail, PNone, r.raised)
    /\ UNCHANGED deferred


----------------------------------------------------------------------------
(* SmartCacheManager.  access_patterns and cache_stats are dicts: functions *)
(* of the keys seen so far.  A pattern's last_access is the last of its     *)
(* access_times; a call takes no time on the model's clock, so that         *)
(* avg_response_time stays 0 and is left out.                               *)

NoPattern == [count |-> 0, access_times |-> <<>>]
NoStat == [hits |-> 0, misses |-> 0]

\* dict.get(key, {}) and the `key not in` branches.
PatternOf(patterns, key) == IF key \in DOMAIN patterns THEN patterns[key] ELSE NoPattern
StatOf(stats, key) == IF key \in DOMAIN stats THEN stats[key] ELSE NoStat

DictPut(d, key, v) == [k \in DOMAIN d \cup {key} |-> IF k = key THEN v ELSE d[k]]

\* A retention that keeps the oldest access times.
RetainedOldest(times) ==
    IF Len(times) > MaxAccessTimes THEN SubSeq(times, 1, MaxAccessTimes) ELSE times

\* pattern['access_times'][-100:], the retained length being MaxAccessTimes.
Retained(times) ==
    IF Len(times) > MaxAccessTimes
    THEN SubSeq(times, Len(times) - MaxAccessTimes + 1, Len(times))
    ELSE times

\* SmartCacheManager._record_access
RecordAccess(patterns, key, now) ==
    LET pattern == PatternOf(patterns, key)
    IN DictPut(patterns, key,
               [count |-> pattern.count + 1,
                access_times |-> Retained(Append(pattern.access_times, now))])

\* SmartCacheManager._record_cache_hit
RecordCacheHit(stats, key) ==
    DictPut(stats, key, [StatOf(stats, key) EXCEPT !.hits = @ + 1])

\* SmartCacheManager._record_cache_miss
RecordCacheMiss(stats, key) ==
    DictPut(stats, key, [StatOf(stats, key) EXCEPT !.misses = @ + 1])

\* A choice of strategy whose thresholds are inclusive.
ChooseCacheStrategyInclusive(patterns, key) ==
    LET access_count == PatternOf(patterns, key).count
    IN IF access_count >= 100 THEN WRITE_THROUGH
       ELSE IF access_count >= 10 THEN WRITE_BACK
       ELSE CACHE_ASIDE

\* SmartCacheManager._choose_cache_strategy
ChooseCacheStrategy(patterns, key) ==
    LET access_count == PatternOf(patterns, key).count
    IN IF access_count > 100 THEN WRITE_THROUGH
       ELSE IF access_count > 10 THEN WRITE_BACK
       ELSE CACHE_ASIDE

\* SmartCacheManager._choose_cache_levels
ChooseCacheLevels(patterns, key) ==
    LET access_count == PatternOf(patterns, key).count
    IN IF access_count > 50 THEN <<L1, L2>>
       ELSE IF access_count > 10 THEN <<L2>>
       ELSE <<L2>>

\* sum(intervals): the intervals between consecutive access times, added up
\* from the i-th on.
RECURSIVE SumIntervals(_, _)
SumIntervals(access_times, i) ==
    IF i > Len(access_times) THEN 0
    ELSE (access_times[i] - access_times[i - 1]) + SumIntervals(access_times, i + 1)

\* The TTL of a list of access times, the mean being taken over all the
\* times but one.
TTLOfRounded(access_times) ==
    IF Len(access_times) < 2 THEN 1800
    ELSE LET total == SumIntervals(access_times, 2)
             n == Len(access_times)
         IN IF total < 60 * n THEN 300
            ELSE IF total < 300 * n THEN 900
            ELSE IF total < 1800 * n THEN 3600
            ELSE 7200

\* The TTL of a list of access times: avg_interval = sum(intervals) /
\* len(intervals), and avg_interval < c is sum(intervals) < c * len(intervals).
TTLOf(access_times) ==
    IF Len(access_times) < 2 THEN 1800
    ELSE LET total == SumIntervals(access_times, 2)
             n == Len(access_times) - 1
         IN IF total < 60 * n THEN 300
            ELSE IF total < 300 * n THEN 900
            ELSE IF total < 1800 * n THEN 3600
            ELSE 7200

\* SmartCacheManager._calculate_ttl
CalculateTTL(patterns, key) == TTLOf(PatternOf(patterns, key).access_times)

\* The data_loader argument: absent, or a callable that returns a value
\* (None included) or raises.
NoLoader == [kind |-> "absent", value |-> PNone]
Returns(v) == [kind |-> "returns", value |-> v]
Raises == [kind |-> "raises", value |-> PNone]

\* What get_with_analytics leaves and returns: the tiers, the task its set
\* created, the two dicts, and the strategy, levels and TTL it chose.
SmartResult(raised, ret, s, task, patterns, stats, strategy, levels, ttl) ==
    [raised |-> raised, ret |-> ret, s |-> s, task |-> task,
     patterns |-> patterns, stats |-> stats,
     strategy |-> strategy, levels |-> levels, ttl |-> ttl]

\* A loader's exception taken for a miss without a value.
LoaderRaisedSwallowed(s, patterns, stats, key) ==
    SmartResult(FALSE, PNone, s, NoTask, patterns, RecordCacheMiss(stats, key), "", <<>>, 0)

\* `value = await data_loader()` raising: nothing of the method catches it.
LoaderRaised(s, patterns, stats, key) ==
    SmartResult(TRUE, PNone, s, NoTask, patterns, stats, "", <<>>, 0)

\* SmartCacheManager.get_with_analytics(key, data_loader)
GetWithAnalytics(client, s, patterns, stats, key, loader, now) ==
    LET Missed(recorded, t) ==
            IF loader.kind = "absent"
            THEN SmartResult(FALSE, PNone, t, NoTask, recorded, stats, "", <<>>, 0)
            ELSE IF loader.kind = "raises"
            THEN LoaderRaised(t, recorded, stats, key)
            ELSE IF loader.value # PNone
            THEN LET strategy == ChooseCacheStrategy(recorded, key)
                     levels == ChooseCacheLevels(recorded, key)
                     ttl == CalculateTTL(recorded, key)
                     Stored(w) ==
                         SmartResult(w.raised, IF w.raised THEN PNone ELSE loader.value,
                                     w.s, w.task, recorded,
                                     IF w.raised THEN stats
                                     ELSE RecordCacheMiss(stats, key),
                                     strategy, levels, ttl)
                 IN Bind(MLSet(client, t, key, loader.value, ttl, levels, strategy,
                               "none", now),
                         Stored)
            ELSE SmartResult(FALSE, PNone, t, NoTask, recorded,
                             RecordCacheMiss(stats, key), "", <<>>, 0)
        Looked(recorded) ==
            LET Read(g) ==
                    IF g.ret # PNone
                    THEN SmartResult(FALSE, g.ret, g.s, NoTask, recorded,
                                     RecordCacheHit(stats, key), "", <<>>, 0)
                    ELSE Missed(recorded, g.s)
            IN Bind(MLGet(client, s, key, <<L1, L2>>, "none", "none", now), Read)
    IN Bind(RecordAccess(patterns, key, now), Looked)

----------------------------------------------------------------------------
(* SmartCacheManager: the call as an action *)

SmartGet(key, loader) ==
    /\ \E r \in {GetWithAnalytics(redis_client, Now, access_patterns, cache_stats,
                                  key, loader, clock)} :
          /\ r.task # NoTask => Len(deferred) < MaxDeferred
          /\ redis_kv' = r.s.rkv
          /\ local_cache' = r.s.store
          /\ l1_cache' = r.s.l1
          /\ deferred' = IF r.task # NoTask THEN Append(deferred, r.task) ELSE deferred
          /\ access_patterns' = r.patterns
          /\ cache_stats' = r.stats
          /\ last' = CallRecord("smart", "get_with_analytics", key, loader, r.ttl,
                                r.levels, r.strategy, "none", r.ret, r.raised, "")
    /\ UNCHANGED <<clock, redis_client, sm_calls, rlVars>>

----------------------------------------------------------------------------
(* CacheManager._generate_key.  The characters of the keys of the model, in *)
(* code-point order; a character's rank stands for its code point.          *)

CodePoints ==
    <<" ", "\"", ",", "0", "1", "2", "3", "4", "5", "6", "7", "8", "9", ":",
      "a", "b", "h", "k", "m", "p", "s", "u", "x", "{", "}">>

CodeOf(c) == CHOOSE i \in 1..Len(CodePoints) : CodePoints[i] = c

\* s < t for two str values: the comparison json.dumps sorts the keys by.
RECURSIVE TextLess(_, _)
TextLess(s, t) ==
    IF t = <<>> THEN FALSE
    ELSE IF s = <<>> THEN TRUE
    ELSE IF s[1] # t[1] THEN CodeOf(s[1]) < CodeOf(t[1])
    ELSE TextLess(Tail(s), Tail(t))

\* sort_keys=True: the items of a dict in the order of their keys.
RECURSIVE SortPairs(_)
SortPairs(pairs) ==
    IF pairs = <<>> THEN <<>>
    ELSE LET i == CHOOSE i \in 1..Len(pairs) :
                     \A j \in 1..Len(pairs) : j = i \/ TextLess(pairs[i][1], pairs[j][1])
             rest == [j \in 1..(Len(pairs) - 1) |->
                         IF j < i THEN pairs[j] ELSE pairs[j + 1]]
         IN <<pairs[i]>> \o SortPairs(rest)

HexChars == <<"0", "1", "2", "3", "4", "5", "6", "7", "8", "9", "a", "b", "c", "d", "e", "f">>

\* A checksum of the characters lo..hi of a text: the sum of position times
\* code, modulo 2^16, the range being halved at each step.
RECURSIVE Checksum(_, _, _)
Checksum(text, lo, hi) ==
    IF lo > hi THEN 0
    ELSE IF lo = hi THEN (lo * CodeOf(text[lo])) % 65536
    ELSE LET mid == (lo + hi) \div 2
         IN (Checksum(text, lo, mid) + Checksum(text, mid + 1, hi)) % 65536

\* hashlib.md5(key_data.encode()).hexdigest(): hexadecimal digits that depend
\* on the content of key_data alone.  The 128 bits of MD5 are a 16-bit
\* checksum here, four digits.
Md5Hex(text) ==
    LET h == Checksum(text, 1, Len(text))
    IN <<HexChars[(h \div 4096) + 1], HexChars[((h \div 256) % 16) + 1],
         HexChars[((h \div 16) % 16) + 1], HexChars[(h % 16) + 1]>>

\* The canonical string key_data: f"{prefix}:{':'.join(map(str, args))}",
\* then ":" and json.dumps(kwargs, sort_keys=True) when there are kwargs.
KeyData(prefix, args, kwargs) ==
    LET joined == JoinText([i \in 1..Len(args) |-> PyStr(args[i])], <<":">>)
        base == prefix \o <<":">> \o joined
    IN IF kwargs # <<>>
       THEN base \o <<":">> \o JsonDumps(PDict(SortPairs(kwargs)))
       ELSE base

\* The longest key_data that is kept as the key.
MaxKeyData == 250

\* A _generate_key that hashes from 250 characters on.
GenerateKeyFrom250(prefix, args, kwargs) ==
    LET key_data == KeyData(prefix, args, kwargs)
    IN IF Len(key_data) >= MaxKeyData
       THEN prefix \o <<":", "h", "a", "s", "h", ":">> \o Md5Hex(key_data)
       ELSE key_data

\* CacheManager._generate_key(prefix, *args, **kwargs)
GenerateKey(prefix, args, kwargs) ==
    LET key_data == KeyData(prefix, args, kwargs)
    IN IF Len(key_data) > MaxKeyData
       THEN prefix \o <<":", "h", "a", "s", "h", ":">> \o Md5Hex(key_data)
       ELSE key_data

\* The call as an action: `last` keeps the arguments and the key returned.
GenerateKeyCall(prefix, args, kwargs) ==
    /\ last' = [NoCall EXCEPT !.api = "cm", !.op = "_generate_key", !.key = prefix,
                              !.arg = [args |-> args, kwargs |-> kwargs],
                              !.ret = PStr(GenerateKey(prefix, args, kwargs))]
    /\ UNCHANGED <<clock, redis_client, cmVars, mlVars, smVars, rlVars>>
----------------------------------------------------------------------------
(* SmartCacheManager.get_with_analytics run by concurrent callers.  The
   coroutine is cut where it awaits something that suspends it: the Redis
   GET of the second tier (with a client), the loader, and the Redis SETEX
   of the write (with a client).  What lies between two await points runs
   without interleaving, as on asyncio's single-threaded event loop.  A
   read or write of the second tier takes effect at the step that resumes
   the coroutine. *)

NoFlight ==
    [pc |-> "idle", key |-> <<>>, loader |-> NoLoader, value |-> PNone,
     ret |-> PNone, raised |-> FALSE, strategy |-> "", levels |-> <<>>, ttl |-> 0,
     n |-> 0, clean |-> TRUE]

\* The coroutine returning ret, or raising.
Finished(call, ret, raised) == [call EXCEPT !.pc = "done", !.ret = ret, !.raised = raised]

\* The index of the first shared tier in levels, Len(levels) + 1 without one.
FirstShared(levels) ==
    IF \E i \in 1..Len(levels) : levels[i] = L2
    THEN CHOOSE i \in 1..Len(levels) :
             /\ levels[i] = L2
             /\ \A j \in 1..(i - 1) : levels[j] # L2
    ELSE Len(levels) + 1

\* MultiLevelCache.set awaits Redis: a write-through set at its first shared
\* tier, a write-back set when its first tier is the shared one.
Suspends(client, strategy, levels) ==
    /\ client = "conn"
    /\ \/ strategy = WRITE_THROUGH /\ FirstShared(levels) <= Len(levels)
       \/ strategy = WRITE_BACK /\ levels # <<>> /\ Head(levels) = L2

\* The tiers a suspending set writes before it is suspended, and from its
\* resumption on.
SyncPart(strategy, levels) ==
    IF strategy = WRITE_THROUGH THEN SubSeq(levels, 1, FirstShared(levels) - 1) ELSE <<>>
AsyncPart(strategy, levels) ==
    IF strategy = WRITE_THROUGH THEN SubSeq(levels, FirstShared(levels), Len(levels))
    ELSE levels

\* A miss recorded only for a loaded value that is not None.
LoadedStatsInsideIf(stats, key, value) ==
    IF value # PNone THEN RecordCacheMiss(stats, key) ELSE stats

\* _record_cache_miss after the loader returned, whatever it returned.
LoadedStats(stats, key, value) == RecordCacheMiss(stats, key)

FlightCommit(s) ==
    /\ redis_kv' = s.rkv
    /\ local_cache' = s.store
    /\ l1_cache' = s.l1

\* From `value = await self.multi_cache.get(key)` having returned g to the
\* next await or the return: a hit is recorded and returned; a miss without
\* a loader returns None; a miss with one calls the loader and awaits it.
Looked(c, call, g) ==
    /\ FlightCommit(g.s)
    /\ IF g.ret # PNone
       THEN /\ cache_stats' = RecordCacheHit(cache_stats, call.key)
            /\ sm_calls' = [sm_calls EXCEPT ![c] = Finished(call, g.ret, FALSE)]
       ELSE /\ cache_stats' = cache_stats
            /\ sm_calls' = [sm_calls EXCEPT ![c] =
                               IF call.loader.kind = "absent"
                               THEN Finished(call, PNone, FALSE)
                               ELSE [call EXCEPT !.pc = "loading"]]

\* A caller calls get_with_analytics(key, loader): _record_access, the read
\* of L1, and without a client the read of the second tier too.
FlightBegin(c, key, loader) ==
    /\ sm_calls[c].pc \in {"idle", "done"}
    /\ access_patterns' = RecordAccess(access_patterns, key, clock)
    /\ LET call == [NoFlight EXCEPT !.key = key, !.loader = loader,
                                !.n = sm_calls[c].n + 1,
                                !.clean = sm_calls[c].clean /\ loader.kind # "absent"]
       IN IF redis_client = "none"
          THEN \E g \in {MLGet(redis_client, Now, key, <<L1, L2>>, "none", "none", clock)} :
                  Looked(c, call, g)
          ELSE \E g \in {MLGet(redis_client, Now, key, <<L1>>, "none", "none", clock)} :
                  IF g.ret # PNone
                  THEN Looked(c, call, g)
                  ELSE /\ FlightCommit(g.s)
                       /\ cache_stats' = cache_stats
                       /\ sm_calls' = [sm_calls EXCEPT ![c] = [call EXCEPT !.pc = "reading"]]
    /\ UNCHANGED <<clock, redis_client, deferred, last, rlVars>>

\* The Redis GET of the second tier answers: the rest of multi_cache.get.
FlightRead(c) ==
    /\ sm_calls[c].pc = "reading"
    /\ \E g \in {MLGetFrom(redis_client, Now, sm_calls[c].key, <<L1, L2>>, 2,
                           "none", "none", clock)} :
          Looked(c, sm_calls[c], g)
    /\ UNCHANGED <<clock, redis_client, deferred, access_patterns, last, rlVars>>

\* From multi_cache.set having written s and created task to the return.
Stored(c, call, w) ==
    /\ w.task # NoTask => Len(deferred) < MaxDeferred
    /\ FlightCommit(w.s)
    /\ deferred' = IF w.task # NoTask THEN Append(deferred, w.task) ELSE deferred
    /\ cache_stats' = IF w.raised THEN cache_stats
                      ELSE LoadedStats(cache_stats, call.key, call.value)
    /\ sm_calls' = [sm_calls EXCEPT ![c] =
                       IF w.raised THEN Finished(call, PNone, TRUE)
                       ELSE Finished(call, call.value, FALSE)]

\* The loader finishes: it raised, or it returned None, or it returned a
\* value, which is written with the strategy, levels and TTL chosen now.
FlightLoaded(c) ==
    /\ sm_calls[c].pc = "loading"
    /\ LET call == sm_calls[c]
           key == call.key
       IN IF call.loader.kind = "raises"
          THEN /\ sm_calls' = [sm_calls EXCEPT ![c] =
                                  Finished([call EXCEPT !.clean = FALSE], PNone, TRUE)]
               /\ UNCHANGED <<cmVars, mlVars, cache_stats>>
          ELSE IF call.loader.value = PNone
          THEN /\ cache_stats' = LoadedStats(cache_stats, key, PNone)
               /\ sm_calls' = [sm_calls EXCEPT ![c] = Finished(call, PNone, FALSE)]
               /\ UNCHANGED <<cmVars, mlVars>>
          ELSE \E chosen \in {[call EXCEPT
                                  !.value = call.loader.value,
                                  !.strategy = ChooseCacheStrategy(access_patterns, key),
                                  !.levels = ChooseCacheLevels(access_patterns, key),
                                  !.ttl = CalculateTTL(access_patterns, key)]} :
                  IF Suspends(redis_client, chosen.strategy, chosen.levels)
                  THEN \E w \in {MLSet(redis_client, Now, key, chosen.value, chosen.ttl,
                                       SyncPart(chosen.strategy, chosen.levels),
                                       chosen.strategy, "none", clock)} :
                          /\ FlightCommit(w.s)
                          /\ sm_calls' = [sm_calls EXCEPT ![c] =
                                             [chosen EXCEPT !.pc = "storing"]]
                          /\ UNCHANGED <<deferred, cache_stats>>
                  ELSE \E w \in {MLSet(redis_client, Now, key, chosen.value, chosen.ttl,
                                       chosen.levels, chosen.strategy, "none", clock)} :
                          Stored(c, chosen, w)
    /\ UNCHANGED <<clock, redis_client, access_patterns, last, rlVars>>

\* The Redis SETEX answers: the rest of multi_cache.set, then
\* _record_cache_miss and the return.
FlightStored(c) ==
    /\ sm_calls[c].pc = "storing"
    /\ LET call == sm_calls[c]
       IN \E w \in {MLSet(redis_client, Now, call.key, call.value, call.ttl,
                          AsyncPart(call.strategy, call.levels), call.strategy,
                          "none", clock)} :
             Stored(c, call, w)
    /\ UNCHANGED <<clock, redis_client, access_patterns, last, rlVars>>
----------------------------------------------------------------------------
(* Shared tier: the sorted-set commands of the limiter's pipeline *)

\* ZREMRANGEBYSCORE key lo hi
ZRemRangeByScore(zs, lo, hi) == {e \in zs : ~(lo <= e.score /\ e.score <= hi)}

\* ZCARD key
ZCard(zs) == Cardinality(zs)

\* ZADD key {member: score}: a member already present only has its score set.
ZAdd(zs, member, score) ==
    {e \in zs : e.member # member} \cup {[member |-> member, score |-> score]}

\* A pipeline that does not prune.
PipelineNoPrune(zs, current_time, win, now) ==
    [zs |-> ZAdd(zs, IntToText(current_time), current_time),
     exp |-> now + win, count |-> ZCard(zs)]

\* The pipeline of is_allowed, run as one transaction by the server at server
\* time `now` with the caller's `current_time`: the new set, the new expiry
\* and results[1], the ZCARD reply.
Pipeline(zs, current_time, win, now) ==
    LET window_start == current_time - win
        pruned == ZRemRangeByScore(zs, 0, window_start)
        added == ZAdd(pruned, IntToText(current_time), current_time)
    IN [zs |-> added, exp |-> now + win, count |-> ZCard(pruned)]

DecisionInclusive(current_count, lim) == current_count <= lim

\* return current_count < limit
Decision(current_count, lim) == current_count < lim

LimiterExceptDeny == [ok |-> FALSE, raised |-> FALSE]

\* except Exception: log; return True
LimiterExcept == [ok |-> TRUE, raised |-> FALSE]

\* if not self.cache_manager.redis_client: return True
LimiterNoClient == [ok |-> TRUE, raised |-> FALSE]

----------------------------------------------------------------------------
(* RateLimiter.is_allowed(key, limit, window).  A call with a client       *)
(* samples the time, builds the pipeline and suspends in pipe.execute();   *)
(* the server runs the transaction when it arrives, which need not be in   *)
(* the order of the sampled times.  rl_log records each returned call: its *)
(* key, its sampled time t, the ZCARD reply, the result, and how the shared  *)
(* tier fared: "ok", "error" or "noclient".                                *)

Idle == [at |-> "idle", key |-> <<>>, t |-> 0]

Returned(key, t, count, ok, raised, how) ==
    [key |-> key, t |-> t, count |-> count, ok |-> ok, raised |-> raised, how |-> how]

InFlight(callers) == Cardinality({c \in callers : rl_pc[c].at = "exec"})

IsAllowedNoClient(c, key, maxCalls) ==
    /\ rl_pc[c].at = "idle"
    /\ Len(rl_log) + InFlight(DOMAIN rl_pc) < maxCalls
    /\ redis_client = "none"
    /\ rl_log' = Append(rl_log,
           Returned(key, clock, 0, LimiterNoClient.ok, LimiterNoClient.raised, "noclient"))
    /\ UNCHANGED <<clock, redis_client, cmVars, mlVars, smVars, last, zset, zexp, limit, window, rl_pc>>

IsAllowedBegin(c, key, maxCalls) ==
    /\ rl_pc[c].at = "idle"
    /\ Len(rl_log) + InFlight(DOMAIN rl_pc) < maxCalls
    /\ redis_client = "conn"
    /\ rl_pc' = [rl_pc EXCEPT ![c] = [at |-> "exec", key |-> key, t |-> clock]]
    /\ UNCHANGED <<clock, redis_client, cmVars, mlVars, smVars, last, zset, zexp, limit, window, rl_log>>

\* pipe.execute() returns.
IsAllowedExec(c) ==
    /\ rl_pc[c].at = "exec"
    /\ LET key == rl_pc[c].key
           t == rl_pc[c].t
           r == Pipeline(zset[key], t, window, clock)
       IN /\ zset' = [zset EXCEPT ![key] = r.zs]
          /\ zexp' = [zexp EXCEPT ![key] = r.exp]
          /\ rl_log' = Append(rl_log,
                 Returned(key, t, r.count, Decision(r.count, limit), FALSE, "ok"))
    /\ rl_pc' = [rl_pc EXCEPT ![c] = Idle]
    /\ UNCHANGED <<clock, redis_client, cmVars, mlVars, smVars, last, limit, window>>

\* pipe.execute() raises: before the server ran the transaction (applied =
\* FALSE), or after it did, the reply being lost (applied = TRUE).
IsAllowedFail(c, applied) ==
    /\ rl_pc[c].at = "exec"
    /\ LET key == rl_pc[c].key
           t == rl_pc[c].t
           r == Pipeline(zset[key], t, window, clock)
       IN /\ zset' = IF applied THEN [zset EXCEPT ![key] = r.zs] ELSE zset
          /\ zexp' = IF applied THEN [zexp EXCEPT ![key] = r.exp] ELSE zexp
          /\ rl_log' = Append(rl_log,
                 Returned(key, t, 0, LimiterExcept.ok, LimiterExcept.raised, "error"))
    /\ rl_pc' = [rl_pc EXCEPT ![c] = Idle]
    /\ UNCHANGED <<clock, redis_client, cmVars, mlVars, smVars, last, limit, window>>

----------------------------------------------------------------------------
(* Inputs *)

K1 == <<"u", ":", "1">>
K2 == <<"u", ":", "2">>
K3 == <<"p", ":", "1">>
K4 == <<"p", ":", "2">>

RLKey == <<"r", "l">>
RLCallers == {"c1", "c2"}
SeqCallers == {"c1"}
RLConfigs == {[limit |-> 1, window |-> 2], [limit |-> 2, window |-> 2]}
SeqConfigs == {[limit |-> 3, window |-> 10], [limit |-> 1, window |-> 2]}

ReadFails == {"none", "pre"}
WriteFails == {"none", "pre", "post"}
ClearFails == {"none", "keys", "pre", "post"}
NoFail == {"none"}

V1 == PStr(<<"a">>)
V2 == PInt(7)
V3 == PList(<<PInt(1)>>)

\* The JSON-safe values of the round trip.
JsonValues ==
    {PStr(<<"a", "b">>), PStr(<<"1", "2">>), PStr(<<"t", "r", "u", "e">>),
     PStr(<<"[", "1", "]">>), PStr(<<>>),
     PInt(0), PInt(12), PBool(TRUE), PBool(FALSE), PNone,
     PList(<<>>), PList(<<PInt(1), PStr(<<"a">>), PBool(TRUE), PNone>>),
     PDict(<< <<<<"k">>, PInt(3)>>, <<<<"m">>, PList(<<PInt(4)>>)>> >>)}

TTLs == {300, 600}
CacheMaxClock == CacheStep * CacheTicks

----------------------------------------------------------------------------
(* Specifications *)

\* The state after construction: CacheManager(), MultiLevelCache(),
\* RateLimiter(cache_manager); nothing cached; no client ("none"), or
\* ("conn") the client of an init_redis() that succeeded.
InitObjects(clients) ==
    /\ clock = 0
    /\ redis_client \in clients
    /\ redis_kv = <<>>
    /\ local_cache = <<>>
    /\ l1_cache = <<>>
    /\ deferred = <<>>
    /\ access_patterns = <<>>
    /\ cache_stats = <<>>
    /\ sm_calls = <<>>
    /\ last = NoCall

InitLimiter(configs, callers) ==
    /\ zset = [k \in {RLKey} |-> {}]
    /\ zexp = [k \in {RLKey} |-> NoExp]
    /\ \E cfg \in configs : limit = cfg.limit /\ window = cfg.window
    /\ rl_pc = [c \in callers |-> Idle]
    /\ rl_log = <<>>

\* The limiter under concurrent callers, a client that may be absent and a
\* shared tier that may fail.
InitRL == InitObjects({"none"}) /\ InitLimiter(RLConfigs, RLCallers)

NextRL ==
    \/ Tick(1, RLMaxClock)
    \/ \E ok \in BOOLEAN : InitRedis(ok)
    \/ \E c \in RLCallers : IsAllowedNoClient(c, RLKey, RLMaxCalls)
    \/ \E c \in RLCallers : IsAllowedBegin(c, RLKey, RLMaxCalls)
    \/ \E c \in RLCallers : IsAllowedExec(c)
    \/ \E c \in RLCallers, applied \in BOOLEAN : IsAllowedFail(c, applied)

SpecRL == InitRL /\ [][NextRL]_vars

\* The limiter with the shared tier reachable and one call at a time, each
\* answered within the second it was made in.
InitSeq == InitObjects({"conn"}) /\ InitLimiter(SeqConfigs, SeqCallers)

NextSeq ==
    \/ InFlight(SeqCallers) = 0 /\ Tick(1, SeqMaxClock)
    \/ \E c \in SeqCallers : IsAllowedBegin(c, RLKey, SeqMaxCalls)
    \/ \E c \in SeqCallers : IsAllowedExec(c)

SpecSeq == InitSeq /\ [][NextSeq]_vars


\* The limiter is idle in the cache runs.
NoLimiter == InitLimiter({[limit |-> 1, window |-> 1]}, {})

\* CacheManager.set and get of one key with every JSON-safe value, with a
\* client (whose calls may fail) and without one.
InitRT == InitObjects({"none", "conn"}) /\ NoLimiter

NextRT ==
    \/ Tick(CacheStep, CacheMaxClock)
    \/ \E v \in JsonValues, fail \in WriteFails : Set(K1, v, 300, fail)
    \/ \E fail \in ReadFails : Get(K1, PNone, fail)

SpecRT == InitRT /\ [][NextRT]_vars

\* CacheManager: get, set, delete and exists of two keys, under a shared
\* tier that comes, goes and fails.
CMKeys == {K1, K2}
CMValues == {V1, V2}
Default == PStr(<<"d">>)

InitCM == InitObjects({"none"}) /\ NoLimiter

NextCM ==
    \/ Tick(CacheStep, CacheMaxClock)
    \/ \E ok \in BOOLEAN : InitRedis(ok)
    \/ \E k \in CMKeys, v \in CMValues, fail \in WriteFails : Set(k, v, 300, fail)
    \/ \E k \in CMKeys, fail \in ReadFails : Get(k, Default, fail)
    \/ \E k \in CMKeys, fail \in WriteFails : Delete(k, fail)
    \/ \E k \in CMKeys, fail \in ReadFails : Exists(k, fail)

SpecCM == InitCM /\ [][NextCM]_vars

\* CacheManager in local-only mode (no client), with one key more than the
\* local store holds.
AllKeys == <<K1, K2, K3, K4>>
StoreKeySet == {AllKeys[i] : i \in 1..(MaxLocalCacheSize + 1)}
ValueOf(k) == IF k = K1 THEN V1 ELSE IF k = K2 THEN V2 ELSE V3

InitLocal == InitObjects({"none"}) /\ NoLimiter

NextLocal ==
    \/ Tick(CacheStep, CacheMaxClock)
    \/ \E k \in StoreKeySet, ttl \in TTLs : Set(k, ValueOf(k), ttl, "none")
    \/ \E k \in StoreKeySet : Get(k, Default, "none")
    \/ \E k \in StoreKeySet : Exists(k, "none")
    \/ \E k \in StoreKeySet : Delete(k, "none")

SpecLocal == InitLocal /\ [][NextLocal]_vars

\* MultiLevelCache in local-only mode: its L2 tier is the CacheManager's
\* local store, which is also read directly.  One key more than the L1 store
\* holds.
L1KeySet == {AllKeys[i] : i \in 1..(MaxL1Size + 1)}
StoreLevels == {<<L1>>, <<L2>>, <<L1, L2>>}
StoreTTLs == {200}

InitStores == InitObjects({"none"}) /\ NoLimiter

NextStores ==
    \/ Tick(CacheStep, CacheStep * StoreTicks)
    \/ \E k \in L1KeySet, ttl \in StoreTTLs :
          MultiSet(k, ValueOf(k), ttl, <<L1, L2>>, WRITE_THROUGH, "none")
    \/ \E k \in L1KeySet, levels \in StoreLevels : MultiGet(k, levels, "none", "none")
    \/ \E k \in L1KeySet : MultiInvalidate(k, <<L1, L2>>, "none")
    \/ \E k \in L1KeySet : Get(k, Default, "none")
    \/ \E k \in L1KeySet : Exists(k, "none")

SpecStores == InitStores /\ [][NextStores]_vars

\* Every method of the CacheManager and of the MultiLevelCache on one key,
\* under a shared tier that comes, goes and fails in every call.
Strategies == {WRITE_THROUGH, WRITE_BACK, CACHE_ASIDE}
FailPatterns == {<<"u", ":", "*">>}

InitFail == InitObjects({"none"}) /\ NoLimiter

NextFail ==
    \/ Tick(CacheStep, CacheStep * StoreTicks)
    \/ \E ok \in BOOLEAN : InitRedis(ok)
    \/ \E fail \in WriteFails : Set(K1, V1, 300, fail)
    \/ \E fail \in ReadFails : Get(K1, Default, fail)
    \/ \E fail \in WriteFails : Delete(K1, fail)
    \/ \E fail \in ReadFails : Exists(K1, fail)
    \/ \E p \in FailPatterns, fail \in ClearFails : ClearPattern(p, fail)
    \/ \E fail \in ReadFails : GetStats(fail)
    \/ \E rfail \in ReadFails, wfail \in WriteFails : MultiGet(K1, <<L1, L2>>, rfail, wfail)
    \/ \E strategy \in Strategies, wfail \in WriteFails :
          MultiSet(K1, V2, 0, <<L1, L2>>, strategy, wfail)
    \/ \E i \in 1..MaxDeferred, wfail \in WriteFails : RunDelayedWrite(i, wfail)
    \/ \E wfail \in WriteFails : MultiInvalidate(K1, <<L1, L2>>, wfail)

SpecFail == InitFail /\ [][NextFail]_vars
----------------------------------------------------------------------------
(* Specifications of the MultiLevelCache's tiers *)

VTrue == PBool(TRUE)
TierValues == {V1, VTrue}
TierOrders == {<<L1>>, <<L2>>, <<L1, L2>>, <<L2, L1>>}

\* MultiLevelCache.get and write-through set of one key over the two tiers
\* in either order, with a client and without one; no call fails.
InitTiers == InitObjects({"none", "conn"}) /\ NoLimiter

NextTiers ==
    \/ Tick(CacheStep, CacheStep * StoreTicks)
    \/ \E v \in TierValues, ttl \in StoreTTLs \cup {0}, levels \in TierOrders :
          MultiSet(K1, v, ttl, levels, WRITE_THROUGH, "none")
    \/ \E levels \in TierOrders : MultiGet(K1, levels, "none", "none")
    \/ \E levels \in TierOrders : MultiInvalidate(K1, levels, "none")

SpecTiers == InitTiers /\ [][NextTiers]_vars

\* The process ends: its objects and its tasks not yet run are gone, the
\* shared tier stays; the next process starts without a client.
Shutdown ==
    /\ redis_client' = "none"
    /\ local_cache' = <<>>
    /\ l1_cache' = <<>>
    /\ deferred' = <<>>
    /\ access_patterns' = <<>>
    /\ cache_stats' = <<>>
    /\ sm_calls' = <<>>
    /\ last' = [NoCall EXCEPT !.op = "shutdown", !.now = clock]
    /\ UNCHANGED <<clock, redis_kv, rlVars>>

WBValues == {V1, V2}
WBOrders == {<<L1>>, <<L1, L2>>, <<L2, L1>>}

\* Write-back sets of one key, their deferred tasks, and the end of the
\* process, with a client and without one; no call fails.
InitWB == InitObjects({"none", "conn"}) /\ NoLimiter

NextWB ==
    \/ Tick(CacheStep, CacheStep * StoreTicks)
    \/ \E v \in WBValues, levels \in WBOrders :
          MultiSet(K1, v, 0, levels, WRITE_BACK, "none")
    \/ \E i \in 1..MaxDeferred : RunDelayedWrite(i, "none")
    \/ MultiGet(K1, <<L1, L2>>, "none", "none")
    \/ MultiInvalidate(K1, <<L1, L2>>, "none")
    \/ InitRedis(TRUE)
    \/ Shutdown

SpecWB == InitWB /\ [][NextWB]_vars

\* The event loop runs every task it was given, as long as the process
\* lives.
SpecWBLive ==
    SpecWB /\ \A i \in 1..MaxDeferred : WF_vars(RunDelayedWrite(i, "none"))


\* SmartCacheManager.get_with_analytics of one key, with and without a
\* client.  A run starts after c0 calls without a loader, made within the
\* second the manager was built in: they miss, and leave the count c0 and
\* the retained access times.  The run then makes up to SmartMaxCalls calls,
\* which takes the count across 10, 50 and 100.
SmartStarts == {0, 9, 49, 99}
SmartLoaders == {NoLoader, Returns(V1), Returns(V2), Returns(PNone), Raises}

Min(a, b) == IF a < b THEN a ELSE b

PatternsAfter(c0) ==
    IF c0 = 0 THEN <<>>
    ELSE [k \in {K1} |->
             [count |-> c0,
              access_times |-> [i \in 1..Min(c0, MaxAccessTimes) |-> 0]]]

CanCall(key) ==
    \E c0 \in SmartStarts :
        /\ c0 <= PatternOf(access_patterns, key).count
        /\ PatternOf(access_patterns, key).count < c0 + SmartMaxCalls

InitSmartFrom(clients, starts) ==
    /\ clock = 0
    /\ redis_client \in clients
    /\ redis_kv = <<>>
    /\ local_cache = <<>>
    /\ l1_cache = <<>>
    /\ deferred = <<>>
    /\ \E c0 \in starts : access_patterns = PatternsAfter(c0)
    /\ cache_stats = <<>>
    /\ sm_calls = <<>>
    /\ last = NoCall
    /\ NoLimiter

InitSmart == InitSmartFrom({"none", "conn"}, SmartStarts)

NextSmart ==
    \/ Tick(CacheStep, CacheStep * SmartTicks)
    \/ \E loader \in SmartLoaders : CanCall(K1) /\ SmartGet(K1, loader)
    \/ \E i \in 1..MaxDeferred : RunDelayedWrite(i, "none")

SpecSmart == InitSmart /\ [][NextSmart]_vars

\* The access times of one key, each call coming one clock step after the
\* call before it, the steps lying on both sides of the TTL thresholds.
TTLSteps == {59, 60, 299, 300, 1799, 1800}
TTLStarts == {0, 9}
TTLLoaders == {NoLoader, Returns(V1)}
TTLMaxClock == 3600

InitTTL == InitSmartFrom({"none"}, TTLStarts)

NextTTL ==
    \/ \E step \in TTLSteps :
          last.api = "smart" /\ last.now = clock /\ Tick(step, TTLMaxClock)
    \/ \E loader \in TTLLoaders : CanCall(K1) /\ SmartGet(K1, loader)

SpecTTL == InitTTL /\ [][NextTTL]_vars

\* CacheManager.clear_pattern over keys that match the pattern and a key
\* that does not, under a shared tier that comes, goes and fails.
ClearKeys == {K1, K2, K3}
ClearPatterns == {<<"u", ":", "*">>, <<"*">>}

InitClear == InitObjects({"none"}) /\ NoLimiter

NextClear ==
    \/ Tick(CacheStep, CacheStep * StoreTicks)
    \/ \E ok \in BOOLEAN : InitRedis(ok)
    \/ \E k \in ClearKeys : Set(k, ValueOf(k), 300, "none")
    \/ \E p \in ClearPatterns, fail \in ClearFails : ClearPattern(p, fail)

SpecClear == InitClear /\ [][NextClear]_vars

\* _generate_key over prefixes, positional arguments whose length puts
\* key_data on both sides of MaxKeyData, and keyword arguments in every
\* order.
KeyPrefixes == {<<"u">>, <<"p">>}
KeyArgLens == {0, 1, MaxKeyData - 3, MaxKeyData - 2, MaxKeyData - 1}
LongArg(n) == PStr([i \in 1..n |-> "x"])
KeyArgs ==
    {<<>>} \cup {<<LongArg(n)>> : n \in KeyArgLens}
           \cup {<<PInt(12), LongArg(n)>> : n \in KeyArgLens}
KeyPairs == {<<<<"a">>, PInt(1)>>, <<<<"b">>, PInt(2)>>, <<<<"a", "b">>, PStr(<<"k">>)>>}

\* The orders of the items of a dict.
Perms(pairs) ==
    LET n == Len(pairs)
        orders == {f \in [1..n -> 1..n] : \A i, j \in 1..n : f[i] = f[j] => i = j}
    IN {[i \in 1..n |-> pairs[f[i]]] : f \in orders}

\* The dicts of the pairs: every subset in every insertion order.
RECURSIVE SeqOfSet(_)
SeqOfSet(set) ==
    IF set = {} THEN <<>>
    ELSE LET x == CHOOSE x \in set : TRUE IN <<x>> \o SeqOfSet(set \ {x})

KeyKwargs == UNION {Perms(SeqOfSet(sub)) : sub \in SUBSET KeyPairs}

InitKey == InitObjects({"none"}) /\ NoLimiter

\* One call in a run: the method reads and writes no state.
NextKey ==
    \E prefix \in KeyPrefixes, args \in KeyArgs, kwargs \in KeyKwargs :
        last = NoCall /\ GenerateKeyCall(prefix, args, kwargs)

SpecKey == InitKey /\ [][NextKey]_vars

\* MultiLevelCache over the default tiers: write-through and write-back sets
\* of two values, the deferred tasks, get and invalidate, with a client and
\* without one; no call fails.
MixStrategies == {WRITE_THROUGH, WRITE_BACK}

InitMix == InitObjects({"none", "conn"}) /\ NoLimiter

NextMix ==
    \/ Tick(CacheStep, CacheStep * StoreTicks)
    \/ \E v \in WBValues, strategy \in MixStrategies :
          MultiSet(K1, v, 0, <<L1, L2>>, strategy, "none")
    \/ \E i \in 1..MaxDeferred : RunDelayedWrite(i, "none")
    \/ MultiGet(K1, <<L1, L2>>, "none", "none")
    \/ MultiInvalidate(K1, <<L1, L2>>, "none")

SpecMix == InitMix /\ [][NextMix]_vars

\* The lifetime of a value: sets with a TTL shorter than the default TTL of
\* the L1 store, reads over the default tiers, and a clock that advances in
\* steps shorter than the TTL.
LifeStep == 100
LifeTicks == 3
LifeTTLs == {200}
LifeLevels == {<<L2>>, <<L1, L2>>}

InitLife == InitObjects({"none", "conn"}) /\ NoLimiter

NextLife ==
    \/ Tick(LifeStep, LifeStep * LifeTicks)
    \/ \E ttl \in LifeTTLs, levels \in LifeLevels :
          MultiSet(K1, V1, ttl, levels, WRITE_THROUGH, "none")
    \/ MultiGet(K1, <<L1, L2>>, "none", "none")
    \/ MultiInvalidate(K1, <<L1>>, "none")

SpecLife == InitLife /\ [][NextLife]_vars

\* Two callers of get_with_analytics on one key, each making up to
\* FlightMaxCalls calls, with and without a client.  A run starts after c0
\* calls whose loader returned None, made within the second the manager was
\* built in: they leave the count c0 and c0 misses.
FlightCallers == {"c1", "c2"}
FlightMaxCalls == 2
FlightStarts == {0, 10, 50, 100}
FlightLoaders == {NoLoader, Returns(V1), Returns(V2), Returns(PNone), Raises}

StatsAfter(c0) ==
    IF c0 = 0 THEN <<>> ELSE [k \in {K1} |-> [hits |-> 0, misses |-> c0]]

InitFlight ==
    /\ clock = 0
    /\ redis_client \in {"none", "conn"}
    /\ redis_kv = <<>>
    /\ local_cache = <<>>
    /\ l1_cache = <<>>
    /\ deferred = <<>>
    /\ \E c0 \in FlightStarts :
          /\ access_patterns = PatternsAfter(c0)
          /\ cache_stats = StatsAfter(c0)
    /\ sm_calls = [c \in FlightCallers |-> NoFlight]
    /\ last = NoCall
    /\ NoLimiter

NextFlight ==
    \/ \E c \in FlightCallers, loader \in FlightLoaders :
          sm_calls[c].n < FlightMaxCalls /\ FlightBegin(c, K1, loader)
    \/ \E c \in FlightCallers : FlightRead(c)
    \/ \E c \in FlightCallers : FlightLoaded(c)
    \/ \E c \in FlightCallers : FlightStored(c)
    \/ \E i \in 1..MaxDeferred : RunDelayedWrite(i, "none")

SpecFlight == InitFlight /\ [][NextFlight]_vars
----------------------------------------------------------------------------
(* Claims about the limiter *)

LogIdx == 1..Len(rl_log)

\* The calls that reached the shared tier and were admitted, with sampled
\* time in the window of `window` seconds that starts at second s.
AdmittedIn(s) ==
    {i \in LogIdx : /\ rl_log[i].how = "ok"
                    /\ rl_log[i].ok
                    /\ s <= rl_log[i].t
                    /\ rl_log[i].t < s + window}

LeftInWindow(i) ==
    {rl_log[j].t : j \in {j \in 1..(i - 1) : rl_log[j].t > rl_log[i].t - window}}

ScenarioTimes == <<0, 1, 2, 3, 11>>
ScenarioResults == <<TRUE, TRUE, TRUE, FALSE, TRUE>>

\* The calls so far are the first calls of the scenario: limit 3, window 10,
\* at seconds 0, 1, 2, 3, 11.
InScenario ==
    /\ limit = 3
    /\ window = 10
    /\ Len(rl_log) <= Len(ScenarioTimes)
    /\ \A i \in LogIdx : rl_log[i].t = ScenarioTimes[i]

\* C2: with the shared tier reachable, is_allowed returns true exactly when
\* the number of timestamps left in the key's window after pruning and before
\* inserting the current one is below limit; for limit 3 and window 10 the
\* calls at seconds 0, 1, 2 return true, the call at 3 false, the call at 11
\* true.
C2_TrueIffCountBelowLimit ==
    /\ \A i \in LogIdx :
          /\ rl_log[i].count = Cardinality(LeftInWindow(i))
          /\ rl_log[i].ok <=> rl_log[i].count < limit
    /\ InScenario => \A i \in LogIdx : rl_log[i].ok = ScenarioResults[i]

C2_Witness ==
    /\ InScenario
    /\ Len(rl_log) = 5
    /\ rl_log[4].ok = FALSE
    /\ rl_log[5].ok = TRUE
    /\ rl_log[5].count = 2

\* C3: is_allowed fails open: without a client, and when the pipeline
\* raises, it returns true and does not raise.
C3_FailsOpen ==
    \A i \in LogIdx :
        /\ ~rl_log[i].raised
        /\ rl_log[i].how \in {"noclient", "error"} => rl_log[i].ok

C3_Witness ==
    /\ \E i \in LogIdx : rl_log[i].how = "noclient" /\ rl_log[i].ok
    /\ \E i \in LogIdx : rl_log[i].how = "error" /\ rl_log[i].ok
    /\ \E i \in LogIdx : rl_log[i].how = "ok" /\ ~rl_log[i].ok


\* The step is the return of a call whose pipeline the server ran.
ExecStep == Len(rl_log') = Len(rl_log) + 1 /\ rl_log'[Len(rl_log')].how = "ok"

\* The call that returned in the step.
Call == rl_log'[Len(rl_log')]

\* C23 as stated: right after an is_allowed call that reached the shared
\* tier, every timestamp t of the key's window satisfies
\* now - window < t <= now, now being the call's time, and the key's TTL is
\* window.
C23_WindowWithinNow ==
    [][ExecStep
       => /\ \A e \in zset'[Call.key] :
                Call.t - window < e.score /\ e.score <= Call.t
          /\ zexp'[Call.key] - clock = window]_vars

\* C23, amended: right after an is_allowed call that reached the shared
\* tier, no timestamp of the key's window is window or more seconds older
\* than the time the call sampled, the call's own timestamp is in the
\* window, and the key's TTL is window, counted from the time the server ran
\* the pipeline.  A timestamp later than the call's time may be there: that
\* of a call that sampled its time later and reached the server earlier.
C23_NoStaleTimestamp ==
    [][ExecStep
       => /\ \A e \in zset'[Call.key] : Call.t - window < e.score
          /\ \E e \in zset'[Call.key] : e.score = Call.t
          /\ zexp'[Call.key] - clock = window]_vars

\* A call pruned the timestamp of an earlier call.
C23_Witness ==
    /\ Len(rl_log) >= 2
    /\ rl_log[Len(rl_log)].how = "ok"
    /\ rl_log[Len(rl_log)].t = window
    /\ \E i \in LogIdx : rl_log[i].how = "ok" /\ rl_log[i].t = 0
    /\ \A e \in zset[RLKey] : e.score > 0

\* C29: a call of is_allowed that returns false leaves the key's timestamps
\* as they were, apart from pruning: the denied request is not recorded, and
\* does not count for later calls.
C29_DeniedNotRecorded ==
    [][(ExecStep /\ ~Call.ok)
       => zset'[Call.key] = ZRemRangeByScore(zset[Call.key], 0, Call.t - window)]_vars
----------------------------------------------------------------------------
(* Claims about the CacheManager *)

IsCall(rec, op) == rec.api = "cm" /\ rec.op = op

\* C4: CacheManager.set(k, v, ttl) immediately followed by
\* CacheManager.get(k) returns a value structurally equal to v, for every
\* JSON-safe v, with the shared tier connected and in local-only mode (no
\* call of the two failing).
C4_SetThenGetReturnsValue ==
    [][(/\ IsCall(last, "set") /\ last.fail = "none"
        /\ IsCall(last', "get") /\ last'.fail = "none"
        /\ last'.key = last.key
        /\ last'.now = last.now)
       => last'.ret = last.arg]_vars

\* C5: CacheManager.get(k, default), when the shared tier holds no entry for
\* k or its read raises, returns the local tier's entry for k if there is one
\* that has not expired, and default otherwise.
C5_GetFallsBackToLocal ==
    (IsCall(last, "get") /\ last.redis \in {"miss", "error"})
    => last.ret = IF last.pre # NoEntry /\ last.pre.expires_at > last.now
                  THEN last.pre.value
                  ELSE last.arg

\* C6: after CacheManager.set(k, v, ttl) returns, v is stored under k in the
\* shared tier if the shared tier is reachable, and in the local tier
\* otherwise, also when a connected shared tier fails the write; the other
\* tier is unchanged; set does not raise.
C6_SetStoresInOneTier ==
    [][(last' # last /\ IsCall(last', "set"))
       => LET k == last'.key
              v == last'.arg
          IN /\ ~last'.raised
             /\ IF last'.client = "conn" /\ last'.fail = "none"
                THEN /\ k \in DOMAIN redis_kv'
                     /\ redis_kv'[k].val = Serialize(v)
                     /\ local_cache' = local_cache
                ELSE /\ StoreEntry(local_cache', k) # NoEntry
                     /\ StoreEntry(local_cache', k).value = v
                     /\ redis_kv' = redis_kv]_vars

IsMulti(rec, op) == rec.api = "ml" /\ rec.op = op

\* C7: whatever the shared tier raises, no method of the CacheManager and of
\* the MultiLevelCache, the deferred write-back task included, lets an
\* exception reach its caller: get yields default (a miss), exists false,
\* clear_pattern 0.
C7_NoExceptionEscapes ==
    /\ ~last.raised
    /\ (last.api = "cm" /\ last.redis = "error") =>
          /\ last.op = "get" => last.ret = last.arg
          /\ last.op = "exists" => last.ret = False
          /\ last.op = "clear_pattern" => last.ret = PInt(0)
    /\ (IsMulti(last, "get") /\ last.fail # "none" /\ last.ret # PNone) =>
          /\ last.pre_l1 # NoEntry
          /\ last.ret = last.pre_l1.value

C7_Witness ==
    /\ IsCall(last, "get")
    /\ last.client = "conn"
    /\ last.fail # "none"
    /\ last.pre # NoEntry
    /\ last.pre.expires_at > last.now
    /\ last.ret = last.arg
    /\ Len(deferred) > 0

\* An entry as a read found it, past its expires_at at the time of the read.
Expired(entry, now) == entry # NoEntry /\ now > entry.expires_at

\* C8: a local-tier entry is not returned once the clock has passed its
\* expires_at: a read of k from the CacheManager's local store or from the L1
\* store later than that returns default / not found, and a read that
\* returns the entry's value found it unexpired.
C8_ExpiredEntryNotReturned ==
    /\ (IsCall(last, "get") /\ last.client = "none") =>
          /\ Expired(last.pre, last.now) => last.ret = last.arg
          /\ last.ret # last.arg =>
                /\ last.pre # NoEntry
                /\ last.now < last.pre.expires_at
                /\ last.ret = last.pre.value
    /\ (IsCall(last, "exists") /\ last.client = "none") =>
          (Expired(last.pre, last.now) => last.ret = False)
    /\ (IsMulti(last, "get") /\ last.levels = <<L1>>) =>
          /\ Expired(last.pre_l1, last.now) => last.ret = PNone
          /\ last.ret # PNone =>
                /\ last.pre_l1 # NoEntry
                /\ last.now < last.pre_l1.expires_at
                /\ last.ret = last.pre_l1.value
    /\ (IsMulti(last, "get") /\ last.levels = <<L1, L2>>) =>
          (Expired(last.pre_l1, last.now) /\ Expired(last.pre, last.now)
              => last.ret = PNone)

C8_Witness ==
    /\ IsMulti(last, "get")
    /\ last.levels = <<L1, L2>>
    /\ Expired(last.pre_l1, last.now)
    /\ Expired(last.pre, last.now)
    /\ last.ret = PNone
    /\ ~StoreHas(l1_cache, last.key)
    /\ ~StoreHas(local_cache, last.key)

\* The local store without its i-th entry.
Without(store, i) == [j \in 1..(Len(store) - 1) |-> IF j < i THEN store[j] ELSE store[j + 1]]

C10_StoresBounded ==
    /\ Len(local_cache) <= MaxLocalCacheSize
    /\ Len(l1_cache) <= MaxL1Size

\* A set of a new key that found both stores full of unexpired entries.
C10_Witness ==
    /\ IsMulti(last, "set")
    /\ last.pre = NoEntry
    /\ last.pre_l1 = NoEntry
    /\ last.size = MaxLocalCacheSize
    /\ last.size_l1 = MaxL1Size
    /\ Len(local_cache) = MaxLocalCacheSize
    /\ Len(l1_cache) = MaxL1Size
    /\ \A i \in 1..Len(l1_cache) : l1_cache[i].expires_at > clock
    /\ \A i \in 1..Len(local_cache) : local_cache[i].expires_at > clock
    /\ StoreHas(l1_cache, last.key)
    /\ StoreHas(local_cache, last.key)
    /\ last.now = clock

----------------------------------------------------------------------------
(* Claims about the MultiLevelCache *)

\* The tiers after the step.
After == Tiers(redis_kv', local_cache', l1_cache')

\* What a read of key restricted to one tier returns in tier state s.
DirectRead(client, s, key, level, now) ==
    GetFromLevel(client, s, key, level, "none", now).value

\* The index of the first tier of levels a direct read of key finds it in,
\* 0 when none does.
HitIndex(client, s, key, levels, now) ==
    LET found == {i \in 1..Len(levels) :
                     DirectRead(client, s, key, levels[i], now) # PNone}
    IN IF found = {} THEN 0 ELSE CHOOSE i \in found : \A j \in found : i <= j

\* Tier `level` is the same before and after the step.
TierUnchanged(level) ==
    CASE level = L1 -> l1_cache' = l1_cache
      [] level = L2 -> redis_kv' = redis_kv /\ local_cache' = local_cache
      [] OTHER -> TRUE

\* When the entry of key in tier `level` expires, after the step.
TierExpiry(level, key) ==
    CASE level = L1 -> StoreEntry(l1_cache', key).expires_at
      [] level = L2 -> IF redis_client = "conn" /\ key \in DOMAIN redis_kv'
                       THEN redis_kv'[key].exp
                       ELSE StoreEntry(local_cache', key).expires_at
      [] OTHER -> NoExp

\* C11: MultiLevelCache.get(k, tiers) returns the value of the first listed
\* tier that holds k, or not-found when none does; it writes that value,
\* with the tier's default TTL, into every tier before the hit tier, so that
\* a direct read of such a tier returns the same value, and leaves the tiers
\* after the hit tier untouched.
C11_GetReturnsFirstHitAndBackfills ==
    [][(last' # last /\ IsMulti(last', "get") /\ last'.fail = "none")
       => LET levels == last'.levels
              k == last'.key
              h == HitIndex(redis_client, Now, k, levels, clock)
          IN /\ h = 0 => last'.ret = PNone
             /\ h > 0 =>
                   /\ last'.ret = DirectRead(redis_client, Now, k, levels[h], clock)
                   /\ \A i \in 1..(h - 1) :
                         /\ DirectRead(redis_client, After, k, levels[i], clock) = last'.ret
                         /\ TierExpiry(levels[i], k) = clock + DefaultTTL(levels[i])
                   /\ \A i \in (h + 1)..Len(levels) : TierUnchanged(levels[i])]_vars

\* C12: when MultiLevelCache.set(k, v, ttl, tiers, WRITE_THROUGH) returns,
\* every listed tier holds v under k, expiring after ttl (after the tier's
\* default TTL when no ttl is given), so that a read of k restricted to any
\* one listed tier returns v.
C12_WriteThroughWritesEveryTier ==
    [][(/\ last' # last
        /\ IsMulti(last', "set")
        /\ last'.strategy = WRITE_THROUGH
        /\ last'.fail = "none")
       => \A i \in 1..Len(last'.levels) :
             LET level == last'.levels[i]
             IN /\ DirectRead(redis_client, After, last'.key, level, clock) = last'.arg
                /\ TierExpiry(level, last'.key) = clock + LevelTTL(last'.ttl, level)]_vars

\* Tier `level` stores v under key after the step.
TierStores(level, key, v) ==
    CASE level = L1 -> StoreEntry(l1_cache', key).value = v /\ StoreHas(l1_cache', key)
      [] level = L2 ->
            IF redis_client = "conn"
            THEN key \in DOMAIN redis_kv' /\ redis_kv'[key].val = Serialize(v)
            ELSE StoreHas(local_cache', key) /\ StoreEntry(local_cache', key).value = v
      [] OTHER -> FALSE

WBTasks ==
    {[key |-> K1, value |-> v, ttl |-> 0, levels |-> Tail(levels)] :
        v \in WBValues, levels \in {o \in WBOrders : Len(o) > 1}}

Pending(task) == \E i \in 1..Len(deferred) : deferred[i] = task

\* The step runs a deferred task.
RanTask ==
    /\ IsMulti(last', "delayed_write")
    /\ Len(deferred') < Len(deferred)

GoneAfter(key) ==
    \A level \in {L1, L2} : DirectRead(redis_client, After, key, level, clock) = PNone

\* C25: once invalidate(k) over the default tiers has returned and until a
\* set(k) is issued, get(k) returns not-found: the invalidation leaves k in
\* no tier, a deferred task of an earlier write-back set that runs after it
\* does not bring k back, and a get that follows returns None.
C25_InvalidateNotUndone ==
    /\ [][(last' # last /\ IsMulti(last', "invalidate")) => GoneAfter(last'.key)]_vars
    /\ [][(IsMulti(last, "invalidate") /\ RanTask /\ last'.key = last.key)
             => GoneAfter(last.key)]_vars
    /\ [][(IsMulti(last, "invalidate") /\ last' # last /\ IsMulti(last', "get")
             /\ last'.key = last.key)
             => last'.ret = PNone]_vars

\* C26: last writer wins: a deferred task that runs after a later
\* write-through set of the key, within the second of that set, leaves
\* every tier with the value of that set, the most recently issued one.
C26_LastWriterWins ==
    [][(/\ IsMulti(last, "set")
        /\ last.strategy = WRITE_THROUGH
        /\ last.now = clock
        /\ RanTask
        /\ last'.key = last.key)
       => \A i \in 1..Len(last.levels) :
             TierStores(last.levels[i], last.key, last.arg)]_vars

\* The latest time an entry of key in some tier expires at, NoExp when no
\* tier has one.
LatestExpiry(s, key) ==
    LET ends == {IF StoreHas(s.l1, key) THEN StoreEntry(s.l1, key).expires_at ELSE NoExp,
                 IF StoreHas(s.store, key) THEN StoreEntry(s.store, key).expires_at
                                           ELSE NoExp,
                 IF key \in DOMAIN s.rkv THEN s.rkv[key].exp ELSE NoExp}
    IN CHOOSE e \in ends : \A f \in ends : f <= e

\* C27: a value written by set(k, v, ttl, tiers, strategy) is not returned
\* by get(k) once ttl seconds have passed since the write, no later set(k)
\* having occurred: a get returns a value only before the latest expiry of
\* the key's entries, and no get, the backfilling ones included, makes that
\* expiry later.
C27_ReadsDoNotExtendLifetime ==
    [][(last' # last /\ IsMulti(last', "get"))
       => /\ last'.ret # PNone => clock < LatestExpiry(Now, last'.key)
          /\ LatestExpiry(After, last'.key) <= LatestExpiry(Now, last'.key)]_vars

----------------------------------------------------------------------------
(* Claims about the SmartCacheManager *)

IsSmart(rec) == rec.api = "smart" /\ rec.op = "get_with_analytics"

\* A step that is a get_with_analytics call: each one counts an access.
SmartStep == IsSmart(last') /\ access_patterns' # access_patterns

Count(key) == PatternOf(access_patterns, key).count
Hits(key) == StatOf(cache_stats, key).hits
Misses(key) == StatOf(cache_stats, key).misses

\* The call of the step missed and its loader yielded a value other than None.
LoadedValue ==
    /\ SmartStep
    /\ last'.arg.kind = "returns"
    /\ last'.arg.value # PNone
    /\ StatOf(cache_stats', last'.key).hits = Hits(last'.key)

\* The call of the step found the key cached: a hit is recorded, the loader
\* is not invoked (an invoked loader ends in a recorded miss or an exception).
HitStep ==
    /\ StatOf(cache_stats', last'.key).hits = Hits(last'.key) + 1
    /\ StatOf(cache_stats', last'.key).misses = Misses(last'.key)
    /\ ~last'.raised

\* The last call missed, loaded a value and chose how to write it.
WroteBack(rec) == IsSmart(rec) /\ rec.strategy # ""

\* C15: when get_with_analytics(k, loader) misses and the loader yields a
\* value v other than None, v is in at least one tier when the call returns,
\* whatever the key's access count; the next get_with_analytics(k, ...),
\* issued before the chosen TTL has elapsed, is a hit that returns v without
\* invoking its loader.
C15_LoadedValueIsCached ==
    /\ [][LoadedValue
            => \E level \in {L1, L2} : TierStores(level, last'.key, last'.arg.value)]_vars
    /\ [][(/\ WroteBack(last)
           /\ SmartStep
           /\ last'.key = last.key
           /\ clock < last.now + last.ttl)
          => last'.ret = last.arg.value /\ HitStep]_vars

\* C16: the L1 memory store holds no entry for a key whose access count is
\* at most 50, after any sequence of get_with_analytics calls; a loaded key
\* whose count is above 50 is written to [L1, L2].
C16_ColdKeysStayOutOfL1 ==
    /\ [](\A k \in StoreKeys(l1_cache) : Count(k) > 50)
    /\ [][LoadedValue /\ PatternOf(access_patterns', last'.key).count > 50
            => last'.levels = <<L1, L2>>]_vars

\* C17: on a miss whose loader yields a value other than None, the strategy
\* is chosen by the key's access count, the current access included: above
\* 100 write-through, from 11 to 100 write-back, up to 10 cache-aside.
C17_StrategyByAccessCount ==
    [][LoadedValue
       => LET count == Count(last'.key) + 1
          IN /\ PatternOf(access_patterns', last'.key).count = count
             /\ count > 100 => last'.strategy = WRITE_THROUGH
             /\ (11 <= count /\ count <= 100) => last'.strategy = WRITE_BACK
             /\ count <= 10 => last'.strategy = CACHE_ASIDE]_vars

C17_Witness ==
    /\ WroteBack(last)
    /\ last.strategy = WRITE_THROUGH
    /\ Count(last.key) = 101
    /\ Misses(last.key) = 2

\* The entries of a store.
Entries(store) == {store[i] : i \in 1..Len(store)}

\* C19: when the loader raises on a miss, get_with_analytics raises to its
\* caller; no tier receives an entry and no task is created; neither a hit
\* nor a miss is recorded for the key; the access recorded at the start of
\* the call is kept.
C19_LoaderExceptionPropagates ==
    [][(SmartStep /\ last'.arg.kind = "raises"
          /\ StatOf(cache_stats', last'.key).hits = Hits(last'.key))
       => /\ last'.raised
          /\ redis_kv' = redis_kv
          /\ Entries(local_cache') \subseteq Entries(local_cache)
          /\ Entries(l1_cache') \subseteq Entries(l1_cache)
          /\ deferred' = deferred
          /\ cache_stats' = cache_stats
          /\ PatternOf(access_patterns', last'.key).count = Count(last'.key) + 1
          /\ LET times == PatternOf(access_patterns', last'.key).access_times
             IN times[Len(times)] = clock]_vars

C19_Witness ==
    /\ IsSmart(last)
    /\ last.arg = Raises
    /\ last.raised
    /\ Count(last.key) = 11
    /\ Misses(last.key) = 1
    /\ PatternOf(access_patterns, last.key).access_times = <<0, 0, 300>>

\* The mean interval of a list of at least two access times, as the ratio
\* span / gaps of the time from the first to the last and the number of
\* intervals between them.
Span(times) == times[Len(times)] - times[1]
Gaps(times) == Len(times) - 1

\* mean(a) <= mean(b)
MeanAtMost(a, b) == Span(a) * Gaps(b) <= Span(b) * Gaps(a)

\* mean(times) < c
MeanBelow(times, c) == Span(times) < c * Gaps(times)

\* Lists of two and of three access times to compare a key's list with.
TTLGrid == {0, 59, 60, 119, 120, 299, 300, 600, 1799, 1800, 3600}
OtherTimes ==
    {<<a, b>> : a \in {0}, b \in TTLGrid}
        \cup {t \in {<<a, b, c>> : a \in {0}, b \in TTLGrid, c \in TTLGrid} : t[2] <= t[3]}

\* C18: the TTL of a written-back value is given by the mean interval
\* between the consecutive retained access times of the key, of which there
\* are at most MaxAccessTimes, the latest ones: 1800 with fewer than two
\* times, 300 for a mean below 60, 900 below 300, 3600 below 1800, and 7200
\* otherwise.  With two times or more, a smaller mean never gives a larger
\* TTL than a larger mean.
C18_TTLByMeanInterval ==
    /\ [][SmartStep
            => LET before == PatternOf(access_patterns, last'.key).access_times
                   times == PatternOf(access_patterns', last'.key).access_times
                   all == Append(before, clock)
               IN /\ Len(times) = Min(Len(all), MaxAccessTimes)
                  /\ \A i \in 1..Len(times) :
                        times[i] = all[Len(all) - Len(times) + i]]_vars
    /\ [][LoadedValue
            => LET times == PatternOf(access_patterns', last'.key).access_times
               IN last'.ttl =
                     IF Len(times) < 2 THEN 1800
                     ELSE IF MeanBelow(times, 60) THEN 300
                     ELSE IF MeanBelow(times, 300) THEN 900
                     ELSE IF MeanBelow(times, 1800) THEN 3600
                     ELSE 7200]_vars
    /\ [](\A k \in DOMAIN access_patterns :
            LET times == access_patterns[k].access_times
            IN Len(times) >= 2 =>
                  \A other \in OtherTimes :
                     /\ MeanAtMost(times, other) => TTLOf(times) <= TTLOf(other)
                     /\ MeanAtMost(other, times) => TTLOf(other) <= TTLOf(times))

C18_Witness ==
    /\ WroteBack(last)
    /\ last.ttl = 900
    /\ Count(last.key) = 12
    /\ LET times == PatternOf(access_patterns, last.key).access_times
       IN Len(times) = MaxAccessTimes /\ times[1] = 0 /\ Span(times) = 120

\* C24: for every key, in every reachable state, the pattern retains at most
\* MaxAccessTimes access times (100 in the code), in non-decreasing order,
\* and they are the latest ones: a call appends its time and the oldest
\* times are dropped; the count grows by one with each get_with_analytics
\* call of the key and changes in no other step; no key leaves
\* access_patterns.
C24_AccessPatternKept ==
    /\ [](\A k \in DOMAIN access_patterns :
            LET times == access_patterns[k].access_times
            IN /\ Len(times) <= MaxAccessTimes
               /\ Len(times) = Min(access_patterns[k].count, MaxAccessTimes)
               /\ \A i \in 1..(Len(times) - 1) : times[i] <= times[i + 1])
    /\ [][/\ DOMAIN access_patterns \subseteq DOMAIN access_patterns'
          /\ \A k \in DOMAIN access_patterns' :
                LET before == PatternOf(access_patterns, k)
                    after == access_patterns'[k]
                IN IF SmartStep /\ last'.key = k
                   THEN /\ after.count = before.count + 1
                        /\ after.access_times[Len(after.access_times)] = clock
                        /\ \A i \in 1..(Len(after.access_times) - 1) :
                              after.access_times[i] =
                                 before.access_times[Len(before.access_times)
                                                       - (Len(after.access_times) - 1) + i]
                   ELSE after = before]_vars

\* The fourth call since the oldest access: the pattern has dropped times.
C24_Witness ==
    /\ IsSmart(last)
    /\ Count(last.key) = 12
    /\ PatternOf(access_patterns, last.key).access_times = <<0, 300, 600>>

----------------------------------------------------------------------------
(* Claims about CacheManager.delete *)

\* key is in neither tier.
Absent(rkv, store, key) == key \notin DOMAIN rkv /\ ~StoreHas(store, key)

\* The step is a call of the CacheManager's method op.
CallStep(op) == last' # last /\ IsCall(last', op)

\* C20: when CacheManager.delete(k) returns True, k is in neither the shared
\* tier nor the local store and every other key is as it was; from then to
\* the next set(k), get(k) returns default and exists(k) returns False;
\* delete of a key that is in neither tier returns True too.
C20_DeleteRemovesFromBothTiers ==
    /\ [][(CallStep("delete") /\ last'.ret = True)
             => /\ Absent(redis_kv', local_cache', last'.key)
                /\ \A k \in (DOMAIN redis_kv) \ {last'.key} :
                      k \in DOMAIN redis_kv' /\ redis_kv'[k] = redis_kv[k]
                /\ DOMAIN redis_kv' \subseteq DOMAIN redis_kv
                /\ local_cache' = StoreDel(local_cache, last'.key)]_vars
    /\ [][\A k \in CMKeys :
             (Absent(redis_kv, local_cache, k) /\ ~(CallStep("set") /\ last'.key = k))
                => /\ Absent(redis_kv', local_cache', k)
                   /\ (CallStep("get") /\ last'.key = k) => last'.ret = last'.arg
                   /\ (CallStep("exists") /\ last'.key = k) => last'.ret = False]_vars
    /\ [][(CallStep("delete") /\ last'.fail = "none"
              /\ Absent(redis_kv, local_cache, last'.key))
             => last'.ret = True]_vars

\* The keys of a set that match a pattern.
Matching(keys, pattern) == {k \in keys : GlobMatch(k, pattern)}

\* C21: CacheManager.clear_pattern(p) removes every key that matches p from
\* the shared tier and from the local store, leaves every other key and its
\* value as they were, and returns the number of entries removed from the
\* two tiers together (no shared-tier call of it failing).
C21_ClearPatternRemovesMatching ==
    [][(CallStep("clear_pattern") /\ last'.fail = "none")
       => LET p == last'.key
              Kept(e) == ~GlobMatch(e.key, p)
          IN /\ Matching(DOMAIN redis_kv', p) = {}
             /\ Matching(StoreKeys(local_cache'), p) = {}
             /\ \A k \in (DOMAIN redis_kv) \ Matching(DOMAIN redis_kv, p) :
                   k \in DOMAIN redis_kv' /\ redis_kv'[k] = redis_kv[k]
             /\ local_cache' = SelectSeq(local_cache, Kept)
             /\ last'.ret = PInt(Cardinality(Matching(DOMAIN redis_kv, p))
                                   + Cardinality(Matching(StoreKeys(local_cache), p)))]_vars

----------------------------------------------------------------------------
(* Claims about CacheManager._generate_key *)

HashPrefix(prefix) == prefix \o <<":", "h", "a", "s", "h", ":">>

\* The keys of the items are in ascending order.
KeysAscend(pairs) ==
    \A i \in 1..(Len(pairs) - 1) : TextLess(pairs[i][1], pairs[i + 1][1])

\* C22: _generate_key is a function of its arguments; the key is the same
\* for every order of the same keyword arguments; it is
\* prefix:hash:<digest of the canonical string> when the canonical string is
\* longer than 250 characters and the canonical string itself when it is at
\* most 250 characters long.
C22_GenerateKey ==
    (last.api = "cm" /\ last.op = "_generate_key")
       => LET prefix == last.key
              args == last.arg.args
              kwargs == last.arg.kwargs
              key_data == KeyData(prefix, args, kwargs)
          IN /\ \A other \in Perms(kwargs) :
                   /\ KeyData(prefix, args, other) = key_data
                   /\ GenerateKey(prefix, args, other) = last.ret.s
             /\ KeysAscend(SortPairs(kwargs))
             /\ Len(key_data) > 250 =>
                   last.ret.s = HashPrefix(prefix) \o Md5Hex(key_data)
             /\ Len(key_data) <= 250 => last.ret.s = key_data

C22_Witness ==
    /\ last.api = "cm" /\ last.op = "_generate_key"
    /\ last.arg.kwargs = << <<<<"b">>, PInt(2)>>, <<<<"a">>, PInt(1)>> >>
    /\ Len(last.arg.args) = 1
    /\ Len(last.arg.args[1].s) = 1
    /\ last.ret.s = <<"u", ":", "x", ":", "{", "\"", "a", "\"", ":", " ", "1", ",", " ",
                      "\"", "b", "\"", ":", " ", "2", "}">>

----------------------------------------------------------------------------
(* Claims about concurrent get_with_analytics calls *)

\* The caller's call has missed and called its loader, and has not returned.
Loading(c) == sm_calls[c].pc \in {"loading", "storing"}

\* The caller is inside no call.
Quiet(c) == sm_calls[c].pc \in {"idle", "done"}

\* C28: single flight: of the get_with_analytics calls for one uncached key
\* that run at the same time at most one has invoked its loader, and the
\* calls that return a value at the end of such a run return the same one.
C28_SingleFlight ==
    \A c1, c2 \in DOMAIN sm_calls :
        (c1 # c2 /\ sm_calls[c1].key = sm_calls[c2].key)
        => /\ ~(Loading(c1) /\ Loading(c2))
           /\ (/\ sm_calls[c1].pc = "done" /\ sm_calls[c2].pc = "done"
               /\ sm_calls[c1].n = 1 /\ sm_calls[c2].n = 1
               /\ sm_calls[c1].ret # PNone /\ sm_calls[c2].ret # PNone)
              => sm_calls[c1].ret = sm_calls[c2].ret

\* Every call made so far supplied a loader, and no loader raised.
AllClean == \A c \in DOMAIN sm_calls : sm_calls[c].clean

\* C30: for every key hits + misses is at most the access count, and equals
\* it when no call for the key is in flight, every call having supplied a
\* loader and no loader having raised.
C30_TelemetryConsistent ==
    \A key \in DOMAIN access_patterns \cup DOMAIN cache_stats :
        LET stat == StatOf(cache_stats, key)
            count == PatternOf(access_patterns, key).count
        IN /\ stat.hits + stat.misses <= count
           /\ (/\ AllClean
               /\ \A c \in DOMAIN sm_calls : Quiet(c) \/ sm_calls[c].key # key)
              => stat.hits + stat.misses = count

\* Both callers have made all their calls with loaders that returned, their
\* last calls returned different values, and of the calls at least one hit
\* and two missed.
C30_Witness ==
    /\ DOMAIN sm_calls = FlightCallers
    /\ AllClean
    /\ \A c \in FlightCallers : sm_calls[c].pc = "done" /\ sm_calls[c].n = FlightMaxCalls
    /\ \E c1, c2 \in FlightCallers : c1 # c2 /\ sm_calls[c1].ret # sm_calls[c2].ret
    /\ StatOf(cache_stats, K1).hits \in 1..(2 * FlightMaxCalls - 2)
    /\ StatOf(cache_stats, K1).hits + StatOf(cache_stats, K1).misses
          = PatternOf(access_patterns, K1).count
====
